---- MODULE Spec2Model ----
(***************************************************************************)
(* Model of the trust/verification engine of claude-test-reporter:         *)
(*   core/test_result_verifier.py   TestResultVerifier, HallucinationDetector *)
(*   core/tracking/test_history_tracker.py   TestHistoryTracker            *)
(*   analyzers/comprehensive_analyzer.py     ComprehensiveAnalyzer          *)
(*                                                                         *)
(* Conventions.                                                            *)
(*  - A Python str is a sequence of characters [c |-> "x"].  The hexdigest *)
(*    of SHA-256 is a str of 64 hex digits.  Which digits they are is not  *)
(*    computed: every behaviour fixes them (hex_chars) to one of           *)
(*    DigestTexts.  The first character of a digest also carries the JSON  *)
(*    text that was hashed, which keeps the digests of different texts     *)
(*    apart (SHA-256 is taken to be collision free).                       *)
(*  - json.dumps(..., sort_keys=True) of a dict is the TLA+ record itself  *)
(*    (records are unordered, so key order is already canonical).          *)
(*  - A float rounded to k decimals is the integer number of 10^-k units.  *)
(***************************************************************************)
EXTENDS Integers, Sequences, FiniteSets, TLC

VARIABLES
    clock,             \* datetime.now(), in ticks of its resolution
    report,            \* the test_results dict handed to the verifier
    verification_log,  \* TestResultVerifier.verification_log, per verifier instance
    record,            \* the record dict the caller holds (mutable, shared by reference)
    original,          \* value of the record when create_immutable_test_record returned it
    tamper,            \* the field the caller overwrote since creation, or "none"
    verify_result,     \* return value of the last verify_record call
    verify_calls,      \* number of verify_record calls on the held record
    output_file,       \* the record in the file generate_verification_report wrote
    template,          \* the claim text that the caller will submit, as a template
    response,          \* llm_response given to the last check_response call
    check_result,      \* return value of the last check_response call
    hex_chars,         \* the 64 hex digits that a digest shows
    history,           \* TestHistoryTracker.history: project -> list of run records
    history_file,      \* content of test_history.json
    flaky_file,        \* content of flaky_tests.json: project -> flaky analysis
    analysed,          \* project_name of the last _analyze_flaky_tests call
    flaky_tests,       \* the dict flaky_tests which that call computed
    trends,            \* the last get_test_trends call: its arguments, time and result
    adapter,           \* the AgentReportAdapter: its data, project_name, history_tracker
    detect_calls,      \* number of detect_flaky_tests calls made on the adapter
    adapter_answer,    \* what the adapter's last query returned
    analyzers,         \* results["analyzers"]: the signals of one analysis pass
    scores,            \* the scores _calculate_scores wrote into results
    prev_scores,       \* the scores of the pass before one signal was raised
    summary,           \* what analyze_multiple_projects returned
    enable_alerts,     \* HallucinationMonitor.enable_alerts
    metrics,           \* HallucinationMonitor.metrics: project -> counters
    alert_callbacks,   \* HallucinationMonitor.alert_callbacks, in registration order
    logger,            \* the lines the monitor's logger has emitted
    alerts,            \* the alert dicts that _trigger_alert has built, oldest first
    callback_calls,    \* the callback invocations made, oldest first
    report_files,      \* project -> lines of <project>_hallucinations.jsonl
    log_outcome,       \* how the last log_hallucination call ended
    calls,             \* the log_hallucination calls made: project and detection_result
    deceptions,        \* what the detect_claude_deceptions calls returned, oldest first
    threads,           \* the log_hallucination calls in progress on other threads
    monitoring_active, \* HallucinationMonitor.monitoring_active
    monitor_thread,    \* HallucinationMonitor.monitor_thread: a thread's number, 0 for None
    loops,             \* the _background_monitor threads started, in order of creation
    caller_pc,         \* where the caller of start/stop_background_monitoring stands
    background_calls,  \* the start/stop_background_monitoring calls made, oldest first
    trackers,          \* the TestHistoryTracker instances over one storage_dir
    ingested,          \* the runs whose add_test_run call has returned
    crashes,           \* what each crash during a save left in test_history.json
    honeypot_input,    \* the test_results handed to check_honeypot_integrity
    violations,        \* the dict check_honeypot_integrity returned
    manipulation_history  \* HoneypotEnforcer.manipulation_history

verifierVars == <<clock, report, verification_log, record, original, tamper,
                  verify_result, verify_calls, output_file>>
detectorVars == <<template, response, check_result, hex_chars>>
adapterVars  == <<adapter, detect_calls, adapter_answer>>
trackerVars  == <<history, history_file, flaky_file, analysed, flaky_tests, trends,
                  adapterVars>>
scoreVars    == <<analyzers, scores, prev_scores, summary>>
backgroundVars == <<monitoring_active, monitor_thread, loops, caller_pc, background_calls>>
monitorVars  == <<enable_alerts, metrics, alert_callbacks, logger, alerts,
                  callback_calls, report_files, log_outcome, calls, deceptions,
                  threads, backgroundVars>>
storageVars  == <<trackers, ingested, crashes>>
honeypotVars == <<honeypot_input, violations, manipulation_history>>

----------------------------------------------------------------------------
(* Bounds *)

MaxClock   == 2     \* clock values 0..MaxClock
MaxCount   == 2     \* aggregate counts 0..MaxCount in the enumerated reports
MaxCases   == 2     \* length of the enumerated tests arrays
MaxCreates == 2     \* create_immutable_test_record calls per verifier
MaxVerify  == 2     \* verify_record calls per held record
MaxRuns    == 22    \* add_test_run calls
MaxAdapterRuns == 5  \* add_test_run calls made through adapters
MaxDetectCalls == 3  \* detect_flaky_tests calls on one adapter
MaxTrendRuns == 10   \* add_test_run calls before a get_test_trends call
MaxUnordered == 2    \* runs of a trend history whose durations come in any order
MaxMixed   == 10    \* only the first MaxMixed runs may be other than "t1 passed"
Grid       == 4     \* the ratios among the signals are k / Grid, k in 0..Grid
MaxBackgroundCalls == 4  \* start/stop_background_monitoring calls on one monitor
MaxIterations == 2       \* passes of one _background_monitor loop
MaxLogCalls == 6    \* log_hallucination calls on one monitor
MaxCallbacks == 2   \* add_alert_callback calls on one monitor
MaxFlagless == 2    \* only the first MaxFlagless log_hallucination calls may bring a
                    \* result without the key hallucinations_detected
MaxDeceptionCalls == 2   \* detect_claude_deceptions calls on one monitor
MaxDeceptionLogCalls == 3  \* log_hallucination calls among detect_claude_deceptions calls
MaxOtherProject == 1  \* only the first MaxOtherProject calls may name a second project,
                      \* with a flagged result
MaxTests   == 2     \* length of the test lists given to check_honeypot_integrity
MaxSaves   == 4     \* add_test_run calls, crashed ones included, on the shared storage
MaxOtherSaves == 1  \* only the first MaxOtherSaves of them may name a second project
MaxMixedSaves == 2  \* only the first MaxMixedSaves of them may bring a failed test
MaxBufferWrites == 1  \* times the buffer fills during one json.dump
MaxIrregular == 1   \* only the first MaxIrregular runs may have a skipped test,
                    \* no tests, or belong to a second project

Verifiers == {"v1", "v2"}

None == "none"

\* the caller holds no record yet / no call has returned yet / no claim text
NoRecord == [none |-> TRUE]
NoResult == [none |-> TRUE]
NoTemplate == [none |-> TRUE]

----------------------------------------------------------------------------
(* Generic helpers *)

Min(a, b) == IF a <= b THEN a ELSE b
Max(a, b) == IF a >= b THEN a ELSE b
Abs(a) == IF a >= 0 THEN a ELSE -a

\* the character p of a pattern is found at the character t of a text: the
\* first character of a digest is found only in the same digest
SameChar(p, t) == p.c = t.c /\ ("sha256" \in DOMAIN p => p = t)

\* Python's `pat in text` on str
Contains(text, pat) ==
    \E i \in 0..(Len(text) - Len(pat)) :
        \A j \in 1..Len(pat) : SameChar(pat[j], text[i + j])

\* round(num/den * 10^k) with ties to even, as Python's round(x, k) yields
\* on a float whose value is exact; scaled = num * 10^k
RoundHalfEven(scaled, den) ==
    LET q == scaled \div den
        r == scaled % den
    IN  IF 2 * r < den THEN q
        ELSE IF 2 * r > den THEN q + 1
        ELSE IF q % 2 = 0 THEN q ELSE q + 1

\* one character of a str
Ch(c) == [c |-> c]

\* a str literal, from its characters
L(chars) == [i \in 1..Len(chars) |-> Ch(chars[i])]

Digit(d) == Ch(<<"0", "1", "2", "3", "4", "5", "6", "7", "8", "9">>[d + 1])

\* str(n) for an int n >= 0
RECURSIVE StrInt(_)
StrInt(n) == IF n < 10 THEN <<Digit(n)>> ELSE StrInt(n \div 10) \o <<Digit(n % 10)>>

\* str(x) / repr(x) of a non-negative float x = h/100 that came out of round(_, 2):
\* the shortest decimal that round-trips, with at least one fractional digit
StrFloat2(h) ==
    LET ip == h \div 100
        fp == h % 100
    IN  StrInt(ip) \o <<Ch(".")>> \o
        (IF fp % 10 = 0 THEN <<Digit(fp \div 10)>>
         ELSE <<Digit(fp \div 10), Digit(fp % 10)>>)

\* a number as Python holds it: an int, or a float with two decimals
IntNum(n)   == [isfloat |-> FALSE, h |-> 100 * n]
FloatNum(h) == [isfloat |-> TRUE, h |-> h]
StrNum(x)   == IF x.isfloat THEN StrFloat2(x.h) ELSE StrInt(x.h \div 100)

----------------------------------------------------------------------------
(* TestResultVerifier *)

\* markers whose presence in str(test["error"]) _classify_error looks for;
\* an error text is modelled by the set of markers it contains
_classify_error(test) ==
    LET error == test.error
    IN  IF "AssertionError" \in error THEN "assertion_failure"
        ELSE IF "ImportError" \in error THEN "import_error"
        ELSE IF "TimeoutError" \in error THEN "timeout"
        ELSE IF "ConnectionError" \in error THEN "connection_error"
        ELSE "unknown_error"

\* test_results.get("tests", [])
TestsOf(test_results) == IF test_results.has_tests THEN test_results.tests ELSE <<>>

\* the list comprehension over the failing cases, in case order
RECURSIVE FailedTests(_)
FailedTests(tests) ==
    IF tests = <<>> THEN <<>>
    ELSE (IF Head(tests).outcome = "failed"
          THEN <<[name |-> Head(tests).nodeid,
                  error_type |-> _classify_error(Head(tests)),
                  must_fix |-> TRUE]>>
          ELSE <<>>) \o FailedTests(Tail(tests))

\* The double arithmetic of passed / total * 100.  A number of more than 31
\* bits is a sequence of limbs, most significant first, every limb but the
\* first below LimbBase; passed and total are below 2^21 and passed is below
\* 2^10 * total
LimbBits == 10
LimbBase == 2^LimbBits

\* the n limbs of rem / den after the point (rem < den), and the remainder
\* that is left after them
RECURSIVE QuotientLimbs(_, _, _)
QuotientLimbs(rem, den, n) ==
    IF n = 0 THEN <<>>
    ELSE <<(rem * LimbBase) \div den>>
         \o QuotientLimbs((rem * LimbBase) % den, den, n - 1)
RECURSIVE QuotientRest(_, _, _)
QuotientRest(rem, den, n) ==
    IF n = 0 THEN rem ELSE QuotientRest((rem * LimbBase) % den, den, n - 1)

\* x * k + carry, for small k and carry
RECURSIVE TimesSmall(_, _, _)
TimesSmall(x, k, carry) ==
    IF Len(x) = 1 THEN <<x[1] * k + carry>>
    ELSE LET v == x[Len(x)] * k + carry
         IN  Append(TimesSmall(SubSeq(x, 1, Len(x) - 1), k, v \div LimbBase),
                    v % LimbBase)

\* the number of binary digits of n, 0 < n < 2^30
BitLength(n) == CHOOSE j \in 1..30 : 2^(j - 1) <= n /\ n < 2^j

\* the s for which 2^54 <= num * 2^s / den < 2^55
ShiftOf(num, den) ==
    IF num >= den
    THEN 54 - (CHOOSE j \in 0..9 : den * 2^j <= num /\ num < den * 2^(j + 1))
    ELSE 54 + (CHOOSE j \in 1..21 : num * 2^(j - 1) < den /\ den <= num * 2^j)

\* the limbs y with their last drop bits rounded away, ties to even; sticky
\* says that bits beyond the last limb were set
RoundedLimbs(y, low, up, step) ==
    TimesSmall([y EXCEPT ![Len(y)] = @ - low], 1, IF up THEN step ELSE 0)
RoundAway(y, last, drop, sticky) ==
    RoundedLimbs(y, last % 2^drop,
                 \/ last % 2^drop > 2^(drop - 1)
                 \/ /\ last % 2^drop = 2^(drop - 1)
                    /\ (sticky \/ (last \div 2^drop) % 2 = 1),
                 2^drop)

\* the double num / den (num, den > 0): its value is x * 2^-s.  The quotient
\* is taken to 55 bits and rounded to 53, ties to even
QuotientTo(head, den, n) ==
    RoundAway(<<head \div den>> \o QuotientLimbs(head % den, den, n),
              IF n = 0 THEN head \div den
              ELSE (QuotientRest(head % den, den, n - 1) * LimbBase) \div den,
              2, QuotientRest(head % den, den, n) # 0)
DoubleAt(num, den, s) ==
    [x |-> QuotientTo(num * 2^(s % LimbBits), den, s \div LimbBits), s |-> s]
DoubleQuotient(num, den) == DoubleAt(num, den, ShiftOf(num, den))

\* the double d * k for the int k = 100: the product has 61 or 62 bits, of
\* which the last 8 or 9 are rounded away, ties to even
RoundProduct(y) ==
    RoundAway(y, y[Len(y)],
              BitLength(y[1]) + LimbBits * (Len(y) - 1) - 53, FALSE)
DoubleTimes(d, k) == [x |-> RoundProduct(TimesSmall(d.x, k, 0)), s |-> d.s]

\* -1, 0 or 1 as the double d is less than, equal to or greater than
\* num / den
CompareLimbs(left, head) ==
    IF left[1] < head THEN -1
    ELSE IF left[1] > head THEN 1
    ELSE IF \E i \in 2..Len(left) : left[i] # 0 THEN 1
    ELSE 0
CompareDouble(d, num, den) ==
    CompareLimbs(TimesSmall(d.x, den, 0), num * 2^(d.s % LimbBits))

\* round(passed / total * 100, 2), in hundredths, for total > 0.  round()
\* gives the hundredth nearest to the double it is handed.  Where the exact
\* percentage is not midway between two hundredths the double rounds as the
\* exact value does (it is within 2^-45 of it, the midpoint at least
\* 1 / (200 * total) away); where it is, the double passed / total * 100 is
\* worked out and compared with the midpoint (2n + 1) / 200.
NearestTo(c, n) ==
    IF c < 0 THEN n
    ELSE IF c > 0 THEN n + 1
    ELSE IF n % 2 = 0 THEN n ELSE n + 1
RoundPercent(passed, total) ==
    IF 2 * ((passed * 10000) % total) # total
    THEN RoundHalfEven(passed * 10000, total)
    ELSE NearestTo(CompareDouble(DoubleTimes(DoubleQuotient(passed, total), 100),
                                 2 * ((passed * 10000) \div total) + 1, 200),
                   (passed * 10000) \div total)

\* round((passed / total * 100) if total > 0 else 0, 2): the int 0 for an
\* empty run, a float otherwise
ExactSuccessRate(passed, total) ==
    IF total > 0 THEN FloatNum(RoundPercent(passed, total)) ELSE IntNum(0)

\* json.dumps(record_copy, sort_keys=True) after the "hash" key was deleted
JsonWithoutHash(rec) ==
    [rec EXCEPT !.verification = [version   |-> rec.verification.version,
                                  timestamp |-> rec.verification.timestamp,
                                  verifier  |-> rec.verification.verifier]]

\* 2fb54785b70478fccdd53b97f39343f511f0b19ee1219c3b673f10579c32938b, the
\* digest of the record of the __main__ example: it holds every decimal digit
AllDigitsDigest ==
    <<"2", "f", "b", "5", "4", "7", "8", "5", "b", "7", "0", "4", "7", "8", "f", "c",
      "c", "d", "d", "5", "3", "b", "9", "7", "f", "3", "9", "3", "4", "3", "f", "5",
      "1", "1", "f", "0", "b", "1", "9", "e", "e", "1", "2", "1", "9", "c", "3", "b",
      "6", "7", "3", "f", "1", "0", "5", "7", "9", "c", "3", "2", "9", "3", "8", "b">>

\* 64 hex digits without a decimal digit among them
NoDigitsDigest ==
    [i \in 1..64 |-> <<"a", "b", "c", "d", "e", "f">>[(i % 6) + 1]]

\* 38137d4f7d626575c9d87b9db3fcfe993c97c76e9be91e6c3e9215727d09f603, a digest
\* of the record of 160 tests with 137 failing: it holds "137"
CountDigest ==
    <<"3", "8", "1", "3", "7", "d", "4", "f", "7", "d", "6", "2", "6", "5", "7", "5",
      "c", "9", "d", "8", "7", "b", "9", "d", "b", "3", "f", "c", "f", "e", "9", "9",
      "3", "c", "9", "7", "c", "7", "6", "e", "9", "b", "e", "9", "1", "e", "6", "c",
      "3", "e", "9", "2", "1", "5", "7", "2", "7", "d", "0", "9", "f", "6", "0", "3">>

\* the hex digits a digest may show: a digest holds a given decimal string, of
\* one digit or of several, or does not
DigestTexts == {AllDigitsDigest, CountDigest, NoDigitsDigest}

\* hashlib.sha256(json_str.encode()).hexdigest()
Sha256Hex(json_str) ==
    [i \in 1..64 |-> IF i = 1 THEN [c |-> hex_chars[1], sha256 |-> json_str]
                               ELSE Ch(hex_chars[i])]

\* the value _calculate_hash returns
_calculate_hash(rec) == Sha256Hex(JsonWithoutHash(rec))

\* the value that stands for no "hash" key in a "verification" dict; it is
\* not a str (the empty str is <<>>)
AbsentHash == <<[absent |-> TRUE]>>

\* the record as _calculate_hash leaves it: record.copy() is shallow, so the
\* del removes "hash" from the caller's own "verification" dict
AfterCalculateHash(rec) == [rec EXCEPT !.verification.hash = AbsentHash]

\* record.get("verification", {}).get("hash", "")
StoredHash(rec) == IF rec.verification.hash = AbsentHash THEN <<>> ELSE rec.verification.hash

\* the dict built by create_immutable_test_record, before the hash is added
RecordBody(test_results, now) ==
    LET total   == test_results.total
        passed  == test_results.passed
        failed  == test_results.failed
        skipped == test_results.skipped
        failed_tests == FailedTests(TestsOf(test_results))
        rate == ExactSuccessRate(passed, total)
    IN  [verification |-> [version |-> "1.0", timestamp |-> now,
                           verifier |-> "TestResultVerifier", hash |-> AbsentHash],
         immutable_facts |-> [total_test_count |-> total,
                              passed_count |-> passed,
                              failed_count |-> failed,
                              skipped_count |-> skipped,
                              exact_success_rate |-> rate,
                              deployment_allowed |-> (failed = 0),
                              critical_failures |-> failed],
         failed_test_details |-> failed_tests,
         deployment_decision |->
             [can_deploy |-> (failed = 0),
              blocking_tests |-> Len(failed_tests),
              required_actions |->
                  IF failed_tests # <<>>
                  THEN [i \in 1..Len(failed_tests) |-> <<"Fix", failed_tests[i].name>>]
                  ELSE <<<<"No actions required - all tests passing">>>>],
         anti_hallucination_statements |->
             <<<<"EXACTLY", failed, "tests are failing">>,
               <<"Success rate is EXACTLY", rate, "%">>,
               <<"Deployment is", IF failed > 0 THEN "BLOCKED" ELSE "ALLOWED">>,
               <<"Any claim contradicting these facts is false">>>>]

create_immutable_test_record(test_results, now) ==
    LET body == RecordBody(test_results, now)
    IN  [body EXCEPT !.verification.hash = _calculate_hash(body)]

\* record["llm_instructions"] of generate_verification_report
LlmInstructions(rec) ==
    [mandatory_statements |->
         <<<<"State:", rec.immutable_facts.failed_count, "tests are failing">>,
           <<"State: Success rate is", rec.immutable_facts.exact_success_rate, "%">>,
           <<"State: Deployment is",
             IF rec.deployment_decision.can_deploy THEN "ALLOWED" ELSE "BLOCKED">>,
           <<"Include verification hash:", rec.verification.hash>>>>,
     forbidden_statements |->
         <<"Do not round success rates up",
           "Do not ignore failed tests",
           "Do not claim tests are passing if failed_count > 0",
           "Do not suggest deployment if any tests fail">>]

\* the record generate_verification_report hands to json.dumps: the immutable
\* record, hash included, with the key "llm_instructions" added to it
generate_verification_report(test_results, now) ==
    LET rec == create_immutable_test_record(test_results, now)
    IN  [verification |-> rec.verification,
         immutable_facts |-> rec.immutable_facts,
         failed_test_details |-> rec.failed_test_details,
         deployment_decision |-> rec.deployment_decision,
         anti_hallucination_statements |-> rec.anti_hallucination_statements,
         llm_instructions |-> LlmInstructions(rec)]

----------------------------------------------------------------------------
(* HallucinationDetector *)

\* "can deploy"
CanDeploy ==
    L(<<"c", "a", "n", " ", "d", "e", "p", "l", "o", "y">>)
\* "ready to deploy"
ReadyToDeploy ==
    L(<<"r", "e", "a", "d", "y", " ", "t", "o", " ", "d", "e", "p",
        "l", "o", "y">>)
\* "deployment allowed"
DeploymentAllowed ==
    L(<<"d", "e", "p", "l", "o", "y", "m", "e", "n", "t", " ", "a",
        "l", "l", "o", "w", "e", "d">>)

\* the phrase list of check_response
ApprovalPhrases == {CanDeploy, ReadyToDeploy, DeploymentAllowed}

UpperCase == <<"A", "B", "C", "D", "E", "F", "G", "H", "I", "J", "K", "L", "M",
               "N", "O", "P", "Q", "R", "S", "T", "U", "V", "W", "X", "Y", "Z">>
LowerCase == <<"a", "b", "c", "d", "e", "f", "g", "h", "i", "j", "k", "l", "m",
               "n", "o", "p", "q", "r", "s", "t", "u", "v", "w", "x", "y", "z">>

\* str.lower(), character by character (a digest is lower-case hex already)
LowerOf == [u \in {UpperCase[i] : i \in 1..26} |->
                LowerCase[CHOOSE i \in 1..26 : UpperCase[i] = u]]
LowerChar(x) == IF x.c \in DOMAIN LowerOf THEN Ch(LowerOf[x.c]) ELSE x
Lower(text) == [i \in 1..Len(text) |-> LowerChar(text[i])]

Percent == <<Ch("%")>>

\* " failing tests"
FailingTests ==
    L(<<" ", "f", "a", "i", "l", "i", "n", "g", " ", "t", "e", "s", "t", "s">>)

Detection(type, severity) == [type |-> type, severity |-> severity]

\* variant: looks for the count as check_response words it in "expected"
MentionsCount_Worded(llm_response, actual_failed) ==
    Contains(llm_response, StrInt(actual_failed) \o FailingTests)

\* str(actual_failed) in llm_response
MentionsCount(llm_response, actual_failed) ==
    Contains(llm_response, StrInt(actual_failed))

\* variant: looks for the figure without the trailing per cent sign
MentionsRate_NoPercent(llm_response, actual_rate) ==
    Contains(llm_response, StrNum(actual_rate))

\* f"{actual_rate}%" in llm_response
MentionsRate(llm_response, actual_rate) ==
    Contains(llm_response, StrNum(actual_rate) \o Percent)

\* any(word in lowered for word in [...])
AnyPhraseIn(lowered) == \E word \in ApprovalPhrases : Contains(lowered, word)

\* any(word in llm_response.lower() for word in [...])
ApprovesDeployment(llm_response) == AnyPhraseIn(Lower(llm_response))

\* actual_record['verification']['hash'] in llm_response
MentionsHash(llm_response, hash) == Contains(llm_response, hash)

\* the list `detections` that check_response builds, in the order of its checks
Detections(llm_response, actual_record) ==
    LET actual_failed == actual_record.immutable_facts.failed_count
        actual_rate   == actual_record.immutable_facts.exact_success_rate
    IN  (IF ~MentionsCount(llm_response, actual_failed)
         THEN <<Detection("missing_failure_count", "critical")>> ELSE <<>>)
        \o
        (IF ~MentionsRate(llm_response, actual_rate)
         THEN <<Detection("incorrect_success_rate", "critical")>> ELSE <<>>)
        \o
        (IF actual_failed > 0 /\ ApprovesDeployment(llm_response)
         THEN <<Detection("false_deployment_approval", "critical")>> ELSE <<>>)
        \o
        (IF ~MentionsHash(llm_response, actual_record.verification.hash)
         THEN <<Detection("missing_verification", "high")>> ELSE <<>>)

\* what check_response hands back: its result dict, or the KeyError raised by
\* actual_record['verification']['hash'] when the dict has no "hash" key
check_response(llm_response, actual_record) ==
    IF actual_record.verification.hash = AbsentHash
    THEN [raised |-> "KeyError"]
    ELSE LET detections == Detections(llm_response, actual_record)
         IN  [hallucinations_detected |-> Len(detections) > 0,
              detection_count |-> Len(detections),
              detections |-> detections,
              response_verified |-> Len(detections) = 0]

----------------------------------------------------------------------------
(* Claim texts given to the detector *)

\* " tests are failing. "
TestsAreFailing ==
    L(<<" ", "t", "e", "s", "t", "s", " ", "a", "r", "e", " ", "f",
        "a", "i", "l", "i", "n", "g", ".", " ">>)
\* "Success rate is "
SuccessRateIs ==
    L(<<"S", "u", "c", "c", "e", "s", "s", " ", "r", "a", "t", "e",
        " ", "i", "s", " ">>)
\* ". "
Stop ==
    L(<<".", " ">>)
\* "Deployment is BLOCKED. "
DeploymentIsBlocked ==
    L(<<"D", "e", "p", "l", "o", "y", "m", "e", "n", "t", " ", "i",
        "s", " ", "B", "L", "O", "C", "K", "E", "D", ".", " ">>)
\* "You CAN DEPLOY now. "
YouCanDeploy ==
    L(<<"Y", "o", "u", " ", "C", "A", "N", " ", "D", "E", "P", "L",
        "O", "Y", " ", "n", "o", "w", ".", " ">>)
\* "Ready to deploy. "
ReadyToDeployText ==
    L(<<"R", "e", "a", "d", "y", " ", "t", "o", " ", "d", "e", "p",
        "l", "o", "y", ".", " ">>)
\* "Hash: "
HashLabel ==
    L(<<"H", "a", "s", "h", ":", " ">>)
\* "nearly 50%"
Nearly50 ==
    L(<<"n", "e", "a", "r", "l", "y", " ", "5", "0", "%">>)
\* "Most tests are passing, about 90% success, safe to deploy"
SpecBadClaim ==
    L(<<"M", "o", "s", "t", " ", "t", "e", "s", "t", "s", " ", "a",
        "r", "e", " ", "p", "a", "s", "s", "i", "n", "g", ",", " ",
        "a", "b", "o", "u", "t", " ", "9", "0", "%", " ", "s", "u",
        "c", "c", "e", "s", "s", ",", " ", "s", "a", "f", "e", " ",
        "t", "o", " ", "d", "e", "p", "l", "o", "y">>)
\* "Most tests are passing, approximately 90% success rate. Should be okay to deploy with minor fixes."
MainBadResponse ==
    L(<<"M", "o", "s", "t", " ", "t", "e", "s", "t", "s", " ", "a",
        "r", "e", " ", "p", "a", "s", "s", "i", "n", "g", ",", " ",
        "a", "p", "p", "r", "o", "x", "i", "m", "a", "t", "e", "l",
        "y", " ", "9", "0", "%", " ", "s", "u", "c", "c", "e", "s",
        "s", " ", "r", "a", "t", "e", ".", " ", "S", "h", "o", "u",
        "l", "d", " ", "b", "e", " ", "o", "k", "a", "y", " ", "t",
        "o", " ", "d", "e", "p", "l", "o", "y", " ", "w", "i", "t",
        "h", " ", "m", "i", "n", "o", "r", " ", "f", "i", "x", "e",
        "s", ".">>)
\* "safe to deploy"
SafeToDeploy ==
    L(<<"s", "a", "f", "e", " ", "t", "o", " ", "d", "e", "p", "l",
        "o", "y">>)

----------------------------------------------------------------------------
(* Inputs of the verifier *)

CasePassed  == [nodeid |-> "t1", outcome |-> "passed", error |-> {}]
CaseFailedA == [nodeid |-> "t2", outcome |-> "failed", error |-> {"AssertionError"}]
CaseFailedB == [nodeid |-> "t3", outcome |-> "failed", error |-> {"ImportError", "TimeoutError"}]
CaseFailedC == [nodeid |-> "t4", outcome |-> "failed", error |-> {}]
Cases == {CasePassed, CaseFailedA}

TestLists == UNION {[1..n -> Cases] : n \in 0..MaxCases}

\* reports whose aggregates need not agree with their case list
EnumeratedReports ==
    {[total |-> t, passed |-> p, failed |-> f, skipped |-> 0,
      has_tests |-> TRUE, tests |-> ts] :
        t \in 0..MaxCount, p \in 0..MaxCount, f \in 0..MaxCount, ts \in TestLists}
    \cup
    {[total |-> t, passed |-> t, failed |-> 0, skipped |-> k,
      has_tests |-> FALSE, tests |-> <<>>] : t \in 0..MaxCount, k \in 0..1}

\* section 8 of the specification: the aggregate hides three failing cases
LyingReport ==
    [total |-> 3, passed |-> 3, failed |-> 0, skipped |-> 0,
     has_tests |-> TRUE, tests |-> <<CaseFailedA, CaseFailedB, CaseFailedC>>]

\* the __main__ example of test_result_verifier.py (50 tests, 5 failing)
MainReport ==
    [total |-> 50, passed |-> 45, failed |-> 5, skipped |-> 0,
     has_tests |-> TRUE, tests |-> <<CaseFailedA, CaseFailedB, CaseFailedC,
                                     CaseFailedA, CaseFailedC>>]

\* section 8 of the specification: total = 3, passed = 1
ThirdReport ==
    [total |-> 3, passed |-> 1, failed |-> 2, skipped |-> 0,
     has_tests |-> TRUE, tests |-> <<CasePassed, CaseFailedA, CaseFailedA>>]

\* 23 of 160 passed: 14.375 per cent, midway between two hundredths, which
\* the double 23 / 160 * 100 lies below
TieReport ==
    [total |-> 160, passed |-> 23, failed |-> 137, skipped |-> 0,
     has_tests |-> FALSE, tests |-> <<>>]

Reports == EnumeratedReports \cup {LyingReport, MainReport, ThirdReport}

\* the detector reads the aggregates only: reports without a case list, and the
\* samples
DetectorReports ==
    {r \in EnumeratedReports : r.tests = <<>>}
    \cup {LyingReport, MainReport, ThirdReport, TieReport}

\* the fields a caller can overwrite in the dict it holds
FactFields == {"total_test_count", "passed_count", "failed_count", "skipped_count",
               "exact_success_rate", "deployment_allowed", "critical_failures"}
DetailFields == {"details.append", "details.name", "details.error_type",
                 "details.must_fix"}
OtherFields == {"verification.timestamp", "verification.version",
                "verification.verifier", "deployment_decision.can_deploy",
                "anti_hallucination_statements"}
TamperFields == FactFields \cup DetailFields \cup OtherFields

\* the record after the caller has set one field to a different value
TamperField(rec, f) ==
    LET facts == rec.immutable_facts
        det   == rec.failed_test_details
    IN  CASE f = "total_test_count" ->
               [rec EXCEPT !.immutable_facts.total_test_count = @ + 1]
          [] f = "passed_count" ->
               [rec EXCEPT !.immutable_facts.passed_count = @ + 1]
          [] f = "failed_count" ->
               [rec EXCEPT !.immutable_facts.failed_count = IF @ > 0 THEN 0 ELSE 1]
          [] f = "skipped_count" ->
               [rec EXCEPT !.immutable_facts.skipped_count = @ + 1]
          [] f = "exact_success_rate" ->
               [rec EXCEPT !.immutable_facts.exact_success_rate =
                    IF @ = FloatNum(10000) THEN FloatNum(9999) ELSE FloatNum(10000)]
          [] f = "deployment_allowed" ->
               [rec EXCEPT !.immutable_facts.deployment_allowed = ~@]
          [] f = "critical_failures" ->
               [rec EXCEPT !.immutable_facts.critical_failures = @ + 1]
          [] f = "details.append" ->
               [rec EXCEPT !.failed_test_details =
                    Append(@, [name |-> "t9", error_type |-> "timeout", must_fix |-> TRUE])]
          [] f = "details.name" ->
               [rec EXCEPT !.failed_test_details[1].name = "t9"]
          [] f = "details.error_type" ->
               [rec EXCEPT !.failed_test_details[1].error_type =
                    IF @ = "timeout" THEN "unknown_error" ELSE "timeout"]
          [] f = "details.must_fix" ->
               [rec EXCEPT !.failed_test_details[1].must_fix = ~@]
          [] f = "verification.timestamp" ->
               [rec EXCEPT !.verification.timestamp = @ + 1]
          [] f = "verification.version" ->
               [rec EXCEPT !.verification.version = "2.0"]
          [] f = "verification.verifier" ->
               [rec EXCEPT !.verification.verifier = "Other"]
          [] f = "deployment_decision.can_deploy" ->
               [rec EXCEPT !.deployment_decision.can_deploy = ~@]
          [] f = "anti_hallucination_statements" ->
               [rec EXCEPT !.anti_hallucination_statements[4] = <<"All tests pass">>]

\* a field of an existing list item can only be set when the list has an item
TamperEnabled(rec, f) ==
    f \in {"details.name", "details.error_type", "details.must_fix"}
        => rec.failed_test_details # <<>>

----------------------------------------------------------------------------
(* TestHistoryTracker *)

HistoryLimit  == 100   \* runs kept per project
FlakyWindow   == 20    \* runs that _analyze_flaky_tests looks at
MinFlakyRuns  == 3     \* runs, and outcomes of a test, needed for the analysis
PatternLength == 10    \* outcomes shown in recent_pattern

Projects == {"p1", "p2"}

\* a dict without keys
EmptyDict == [k \in {} |-> TRUE]

\* one item of a dict of which the order of the keys is read
Item(key, value) == [key |-> key, value |-> value]

\* d[key] = value on a dict
DictSet(d, key, value) ==
    [k \in DOMAIN d \cup {key} |-> IF k = key THEN value ELSE d[k]]

\* seq[-n:]
LastN(seq, n) == SubSeq(seq, Max(1, Len(seq) - n + 1), Len(seq))

\* run_record["tests"]: the loop over test_results.get("tests", []); a later
\* case of the same name overwrites an earlier one
RunTests(tests) ==
    [name \in {tests[i].nodeid : i \in DOMAIN tests} |->
        LET last == CHOOSE i \in DOMAIN tests :
                        /\ tests[i].nodeid = name
                        /\ \A j \in DOMAIN tests : tests[j].nodeid = name => j <= i
        IN  [outcome  |-> tests[last].outcome,
             duration |-> tests[last].duration,
             error    |-> tests[last].error]]

\* the run record that add_test_run builds
RunRecord(test_results, now) ==
    [run_id    |-> now,
     timestamp |-> now,
     summary   |-> [total    |-> test_results.total,
                    passed   |-> test_results.passed,
                    failed   |-> test_results.failed,
                    skipped  |-> test_results.skipped,
                    duration |-> test_results.duration],
     tests     |-> RunTests(TestsOf(test_results))]

\* test_outcomes[test_name]: the outcomes of the test in the runs, oldest first
RECURSIVE OutcomesOf(_, _)
OutcomesOf(runs, test_name) ==
    IF runs = <<>> THEN <<>>
    ELSE (IF test_name \in DOMAIN Head(runs).tests
          THEN <<Head(runs).tests[test_name].outcome>> ELSE <<>>)
         \o OutcomesOf(Tail(runs), test_name)

\* outcomes.count(outcome)
RECURSIVE Count(_, _)
Count(outcomes, outcome) ==
    IF outcomes = <<>> THEN 0
    ELSE (IF Head(outcomes) = outcome THEN 1 ELSE 0) + Count(Tail(outcomes), outcome)

\* round(1 - abs(passed_count - failed_count) / total_runs, 3), in thousandths
Flakiness(passed_count, failed_count, total_runs) ==
    RoundHalfEven(1000 * (total_runs - Abs(passed_count - failed_count)), total_runs)

\* round(count / total_runs * 100, 1), in tenths of a per cent
Rate1(count, total_runs) == RoundHalfEven(1000 * count, total_runs)

PatternLetter(o) == IF o = "passed" THEN "P" ELSE IF o = "failed" THEN "F" ELSE "S"

\* the test has mixed results: enough outcomes, a pass and a failure among them
IsFlaky(outcomes) ==
    /\ Len(outcomes) >= MinFlakyRuns
    /\ LET unique_outcomes == {outcomes[i] : i \in DOMAIN outcomes}
       IN  /\ Cardinality(unique_outcomes) > 1
           /\ "passed" \in unique_outcomes
           /\ "failed" \in unique_outcomes

\* flaky_tests[test_name]
FlakyEntry(outcomes, now) ==
    LET passed_count == Count(outcomes, "passed")
        failed_count == Count(outcomes, "failed")
        total_runs   == Len(outcomes)
        recent       == LastN(outcomes, PatternLength)
    IN  [flakiness_score |-> Flakiness(passed_count, failed_count, total_runs),
         pass_rate       |-> Rate1(passed_count, total_runs),
         fail_rate       |-> Rate1(failed_count, total_runs),
         total_runs      |-> total_runs,
         recent_pattern  |-> [i \in DOMAIN recent |-> PatternLetter(recent[i])],
         last_outcome    |-> outcomes[Len(outcomes)],
         detected_at     |-> now]

\* the dict flaky_tests that _analyze_flaky_tests builds from the project's runs
FlakyTests(runs, now) ==
    LET recent_runs == LastN(runs, FlakyWindow)
        names == UNION {DOMAIN recent_runs[i].tests : i \in DOMAIN recent_runs}
    IN  [name \in {n \in names : IsFlaky(OutcomesOf(recent_runs, n))} |->
            FlakyEntry(OutcomesOf(recent_runs, name), now)]

\* the analysis returns at once for an unknown project or fewer than three runs
AnalysisRuns(hist, project_name) ==
    project_name \in DOMAIN hist /\ Len(hist[project_name]) >= MinFlakyRuns

\* flaky_tests.json after _analyze_flaky_tests: written only when the
\* analysis found a flaky test
FlakyFileAfter(file, hist, project_name, now) ==
    IF ~AnalysisRuns(hist, project_name) THEN file
    ELSE LET found == FlakyTests(hist[project_name], now)
         IN  IF found # EmptyDict
             THEN DictSet(file, project_name, [updated_at |-> now, tests |-> found])
             ELSE file

\* get_flaky_tests(project_name): all_flaky_tests.get(project_name, {}), the
\* project's entry with its keys updated_at and tests
get_flaky_tests(project_name) ==
    IF project_name \in DOMAIN flaky_file THEN flaky_file[project_name] ELSE EmptyDict

\* sum(numbers)
RECURSIVE Sum(_)
Sum(numbers) == IF numbers = <<>> THEN 0 ELSE Head(numbers) + Sum(Tail(numbers))

\* relevant_runs of get_test_trends: of the runs not older than cutoff_date,
\* those that hold the test
RECURSIVE RelevantRuns(_, _, _)
RelevantRuns(runs, test_name, cutoff_date) ==
    IF runs = <<>> THEN <<>>
    ELSE (IF Head(runs).timestamp >= cutoff_date /\ test_name \in DOMAIN Head(runs).tests
          THEN <<[timestamp |-> Head(runs).timestamp,
                  outcome   |-> Head(runs).tests[test_name].outcome,
                  duration  |-> Head(runs).tests[test_name].duration]>>
          ELSE <<>>)
         \o RelevantRuns(Tail(runs), test_name, cutoff_date)

\* durations = [r["duration"] for r in relevant_runs if r["duration"] > 0]
PositiveDurations(relevant_runs) ==
    LET kept == SelectSeq(relevant_runs, LAMBDA r : r.duration > 0)
    IN  [i \in DOMAIN kept |-> kept[i].duration]

\* statistics.mean(numbers) of ints as a double: the exact mean where it is
\* an int, else the double nearest to it
MeanOf(numbers) == DoubleQuotient(Sum(numbers), Len(numbers))

\* the double d * 1.5: d * 3 rounded to 53 bits, halved
TimesOneAndAHalf(d) == [x |-> DoubleTimes(d, 3).x, s |-> d.s + 1]

\* the limbs of x with the first limb below LimbBase as well
RECURSIVE Carried(_)
Carried(x) ==
    IF x[1] < LimbBase THEN x
    ELSE Carried(<<x[1] \div LimbBase, x[1] % LimbBase>> \o Tail(x))

\* -1, 0 or 1 as the number of the limbs a is less than, equal to or greater
\* than that of the limbs b, neither starting with 0
RECURSIVE CompareNat(_, _)
CompareNat(a, b) ==
    IF Len(a) # Len(b) THEN (IF Len(a) < Len(b) THEN -1 ELSE 1)
    ELSE IF a = <<>> THEN 0
    ELSE IF a[1] # b[1] THEN (IF a[1] < b[1] THEN -1 ELSE 1)
    ELSE CompareNat(Tail(a), Tail(b))

\* -1, 0 or 1 as the double a is less than, equal to or greater than the
\* double b (the two differ by a factor below 2^20)
CompareDoubles(a, b) ==
    CompareNat(Carried(TimesSmall(a.x, 2^(b.s - Min(a.s, b.s)), 0)),
               Carried(TimesSmall(b.x, 2^(a.s - Min(a.s, b.s)), 0)))

\* variant: the recent mean is compared with 1.25 times the overall mean
PerformanceRegression_Factor125(durations) ==
    /\ Len(durations) >= 5
    /\ CompareDoubles(MeanOf(LastN(durations, 5)),
                      [x |-> DoubleTimes(MeanOf(durations), 5).x,
                       s |-> MeanOf(durations).s + 2]) > 0

\* lines 141-144: len(durations) >= 5 and recent_avg > overall_avg * 1.5 on
\* the doubles recent_avg = mean(durations[-5:]), overall_avg =
\* mean(durations) and their product with 1.5
PerformanceRegression(durations) ==
    /\ Len(durations) >= 5
    /\ CompareDoubles(MeanOf(LastN(durations, 5)),
                      TimesOneAndAHalf(MeanOf(durations))) > 0

\* tracker.get_test_trends(project_name, test_name, days) at the time now, one
\* tick of the clock being a day; success_rate and the mean are held as the
\* fractions [n, d] whose nearest doubles they are, and regression_factor,
\* the double recent_avg / overall_avg, by the two means it is the quotient
\* of; the median and the std_dev of duration_stats, which no later step
\* reads, are left out
get_test_trends(hist, project_name, test_name, days, now) ==
    IF project_name \notin DOMAIN hist THEN [error |-> "Project not found"]
    ELSE LET relevant_runs == RelevantRuns(hist[project_name], test_name, now - days)
             outcomes  == [i \in DOMAIN relevant_runs |-> relevant_runs[i].outcome]
             durations == PositiveDurations(relevant_runs)
             values    == {durations[i] : i \in DOMAIN durations}
             found ==
                 [test_name    |-> test_name,
                  period_days  |-> days,
                  total_runs   |-> Len(relevant_runs),
                  outcomes     |-> [passed  |-> Count(outcomes, "passed"),
                                    failed  |-> Count(outcomes, "failed"),
                                    skipped |-> Count(outcomes, "skipped")],
                  success_rate |-> [n |-> 100 * Count(outcomes, "passed"),
                                    d |-> Len(outcomes)],
                  duration_stats |->
                      IF durations = <<>>
                      THEN [mean |-> [n |-> 0, d |-> 1], min |-> 0, max |-> 0]
                      ELSE [mean |-> [n |-> Sum(durations), d |-> Len(durations)],
                            min |-> CHOOSE v \in values : \A w \in values : v <= w,
                            max |-> CHOOSE v \in values : \A w \in values : v >= w],
                  recent_runs  |-> LastN(relevant_runs, 10)]
         IN  IF relevant_runs = <<>>
             THEN [error |-> "No data for this test in the specified period"]
             ELSE IF PerformanceRegression(durations)
             THEN found @@ [performance_regression |-> TRUE,
                            regression_factor |->
                                [recent_avg |-> [n |-> Sum(LastN(durations, 5)), d |-> 5],
                                 overall_avg |-> [n |-> Sum(durations),
                                                  d |-> Len(durations)]]]
             ELSE found

----------------------------------------------------------------------------
(* Inputs and operations of the tracker *)

TrackerCase(outcome) == [nodeid |-> "t1", outcome |-> outcome, duration |-> 1, error |-> {}]

\* a run report of the single test "t1"
TrackerReport(outcome) ==
    [total |-> 1,
     passed |-> IF outcome = "passed" THEN 1 ELSE 0,
     failed |-> IF outcome = "failed" THEN 1 ELSE 0,
     skipped |-> IF outcome = "skipped" THEN 1 ELSE 0,
     duration |-> 1, has_tests |-> TRUE, tests |-> <<TrackerCase(outcome)>>]

\* a run report without cases
EmptyReport ==
    [total |-> 0, passed |-> 0, failed |-> 0, skipped |-> 0,
     duration |-> 0, has_tests |-> FALSE, tests |-> <<>>]

TrackerReports == {TrackerReport(o) : o \in {"passed", "failed", "skipped"}} \cup {EmptyReport}

\* the everyday ingestion, and the ingestions that are rationed
Regular(project_name, test_results) ==
    project_name = "p1" /\ test_results = TrackerReport("passed")
Irregular(project_name, test_results) ==
    project_name # "p1" \/ test_results \in {TrackerReport("skipped"), EmptyReport}
\* the run given to a second project
OtherProjectRun(project_name, test_results) ==
    project_name # "p1" => test_results = TrackerReport("failed")

RunsOf(hist, project_name) ==
    IF project_name \in DOMAIN hist THEN hist[project_name] ELSE <<>>

RunsAdded == Len(RunsOf(history, "p1")) + Len(RunsOf(history, "p2"))

\* tracker.add_test_run(project_name, test_results): append, prune, save the
\* history, analyse the flaky tests
add_test_run(project_name, test_results) ==
    /\ LET run_record == RunRecord(test_results, clock)
           runs == LastN(Append(RunsOf(history, project_name), run_record), HistoryLimit)
           hist == DictSet(history, project_name, runs)
       IN  /\ history' = hist
           /\ history_file' = hist
           /\ flaky_file' = FlakyFileAfter(flaky_file, hist, project_name, clock)
           /\ analysed' = project_name
           /\ flaky_tests' = IF AnalysisRuns(hist, project_name)
                             THEN FlakyTests(hist[project_name], clock)
                             ELSE EmptyDict
    /\ clock' = clock + 1

\* add_test_run with the runs of the flakiness analysis
AddTestRun(project_name, test_results) ==
    /\ RunsAdded < MaxRuns
    /\ RunsAdded >= MaxMixed => Regular(project_name, test_results)
    /\ Irregular(project_name, test_results) => RunsAdded < MaxIrregular
    /\ OtherProjectRun(project_name, test_results)
    /\ add_test_run(project_name, test_results)
    /\ UNCHANGED <<trends, adapterVars, report, verification_log, record, original, tamper,
                   verify_result, verify_calls, output_file, detectorVars, scoreVars, monitorVars, storageVars, honeypotVars>>

\* a run report of the single test "t1", passed, with the duration given
TimedReport(duration) ==
    [total |-> 1, passed |-> 1, failed |-> 0, skipped |-> 0,
     duration |-> duration, has_tests |-> TRUE,
     tests |-> <<[nodeid |-> "t1", outcome |-> "passed", duration |-> duration,
                  error |-> {}]>>]

\* the durations tried: none recorded (0), and four lengths
Durations == {0, 1, 2, 4, 16}

\* the duration of the run added last
LastDuration ==
    LET runs == RunsOf(history, "p1")
    IN  IF runs = <<>> THEN 0 ELSE runs[Len(runs)].summary.duration

\* the get_test_trends calls tried: the default window and a longer one, an
\* unknown project, a test without runs
TrendQueries ==
    {[project_name |-> "p1", test_name |-> "t1", days |-> 7],
     [project_name |-> "p1", test_name |-> "t1", days |-> 30],
     [project_name |-> "p2", test_name |-> "t1", days |-> 7],
     [project_name |-> "p1", test_name |-> "t2", days |-> 7]}

\* add_test_run of a run with the duration given, one run a day; the caller
\* drops the answer of an earlier get_test_trends call.  The first
\* MaxUnordered runs take any time, the later ones no less than the run before
AddTimedRun(duration) ==
    /\ RunsAdded < MaxTrendRuns
    /\ RunsAdded >= MaxUnordered => duration >= LastDuration
    /\ add_test_run("p1", TimedReport(duration))
    /\ trends' = NoResult
    /\ UNCHANGED <<adapterVars, report, verification_log, record, original, tamper,
                   verify_result, verify_calls, output_file, detectorVars, scoreVars, monitorVars,
                   storageVars, honeypotVars>>

\* tracker.get_test_trends(project_name, test_name, days)
GetTestTrends(query) ==
    /\ trends' = [query |-> query, now |-> clock,
                  result |-> get_test_trends(history, query.project_name,
                                             query.test_name, query.days, clock)]
    /\ UNCHANGED <<history, history_file, flaky_file, analysed, flaky_tests, adapterVars,
                   verifierVars, detectorVars, scoreVars, monitorVars, storageVars,
                   honeypotVars>>

----------------------------------------------------------------------------
(* AgentReportAdapter: the adapter of one pytest-json-report file.  Its      *)
(* history_tracker is TestHistoryTracker() when the module has imported the  *)
(* class, and None when that import has failed.                              *)

\* the module's name TestHistoryTracker after "from ..tracking import
\* TestHistoryTracker" (lines 10-14): the module is
\* claude_test_reporter/adapters/agent_report_adapter.py, so the import names
\* the package claude_test_reporter.tracking; the tracker lives in
\* claude_test_reporter/core/tracking, the import raises ImportError and the
\* except clause binds the name to None
TestHistoryTracker_InCore == "TestHistoryTracker"
TestHistoryTracker == None

\* the markers tried in the longrepr of a failed case
Longreprs ==
    {{}, {"AssertionError"}, {"ImportError"}, {"ImportError", "AssertionError"},
     {"ValueError"}}

\* a case of the report; longrepr is modelled by the set of markers in its text
AdapterCase(nodeid, outcome, longrepr) ==
    [nodeid |-> nodeid, outcome |-> outcome, duration |-> 1, error |-> {},
     longrepr |-> longrepr]

\* the cases tried under one nodeid
AdapterCases(nodeid) ==
    {AdapterCase(nodeid, outcome, {}) : outcome \in {"passed", "skipped"}}
    \cup {AdapterCase(nodeid, "failed", longrepr) : longrepr \in Longreprs}

\* the nodeid of the n-th case
NodeId(n) == IF n = 1 THEN "t1" ELSE IF n = 2 THEN "t2" ELSE "t3"

\* the arrays of n cases, the k-th under the k-th nodeid
CasesOfLength(n) ==
    {cases \in [1..n -> UNION {AdapterCases(NodeId(k)) : k \in 1..n}] :
        \A k \in 1..n : cases[k].nodeid = NodeId(k)}

\* self.data of the reports tried: one to MaxCases cases
AdapterData ==
    {[duration |-> 1, tests |-> tests] :
        tests \in UNION {CasesOfLength(n) : n \in 1..MaxCases}}

\* sum(1 for t in tests if t["outcome"] == outcome)
OutcomeCount(tests, outcome) ==
    Cardinality({i \in DOMAIN tests : tests[i].outcome = outcome})

\* the dict detect_flaky_tests hands to add_test_run
AdapterResults(data) ==
    [total |-> Len(data.tests),
     passed |-> OutcomeCount(data.tests, "passed"),
     failed |-> OutcomeCount(data.tests, "failed"),
     skipped |-> OutcomeCount(data.tests, "skipped"),
     duration |-> data.duration,
     has_tests |-> TRUE,
     tests |-> data.tests]

\* the filter of detect_flaky_tests over tracker.get_flaky_tests(project_name),
\* read from the flaky file given; the scores are in thousandths
FlakyAboveThreshold(file, project_name, threshold) ==
    LET flaky_analysis == IF project_name \in DOMAIN file THEN file[project_name]
                          ELSE EmptyDict
    IN  IF flaky_analysis = EmptyDict THEN EmptyDict
        ELSE [test_name \in {n \in DOMAIN flaky_analysis.tests :
                                flaky_analysis.tests[n].flakiness_score >= threshold} |->
                 LET data == flaky_analysis.tests[test_name]
                 IN  [flakiness_score |-> data.flakiness_score,
                      pass_rate |-> data.pass_rate,
                      recent_pattern |-> data.recent_pattern,
                      severity |-> IF data.flakiness_score > 700 THEN "high" ELSE "medium"]]

\* _extract_error_type(test)
_extract_error_type(test) ==
    IF "AssertionError" \in test.longrepr THEN "AssertionError"
    ELSE IF "ImportError" \in test.longrepr THEN "ImportError"
    ELSE IF "AttributeError" \in test.longrepr THEN "AttributeError"
    ELSE IF "ValueError" \in test.longrepr THEN "ValueError"
    ELSE "UnknownError"

\* _suggest_fix(error_type): fixes.get(error_type, "Debug the specific error")
_suggest_fix(error_type) ==
    CASE error_type = "ImportError" -> "Run 'python -m uv sync' to install dependencies"
      [] error_type = "AssertionError" -> "Review test assertions and expected values"
      [] error_type = "AttributeError" -> "Check object initialization and method names"
      [] error_type = "ValueError" -> "Verify input data types and values"
      [] error_type = "SkippedTests" -> "Review skip conditions and enable tests"
      [] error_type = "FlakyTests" -> "Add retry logic or fix test dependencies"
      [] OTHER -> "Debug the specific error"

\* get_failed_tests(): the failed cases in order, each with its test_id and
\* its error_type
get_failed_tests(data) ==
    LET failed == SelectSeq(data.tests, LAMBDA t : t.outcome = "failed")
    IN  [n \in DOMAIN failed |->
            [test_id |-> failed[n].nodeid, duration |-> failed[n].duration,
             error_type |-> _extract_error_type(failed[n])]]

\* error_groups (lines 63-68), an ordered dict: the error types in the order
\* of their first failed test, each with the ids of its tests in order
RECURSIVE ErrorGroups(_, _)
ErrorGroups(failed_tests, error_groups) ==
    IF failed_tests = <<>> THEN error_groups
    ELSE LET test == Head(failed_tests)
             at == {n \in DOMAIN error_groups : error_groups[n].key = test.error_type}
         IN  ErrorGroups(Tail(failed_tests),
                 IF at = {}
                 THEN Append(error_groups, Item(test.error_type, <<test.test_id>>))
                 ELSE [n \in DOMAIN error_groups |->
                          IF n \in at
                          THEN Item(test.error_type,
                                    Append(error_groups[n].value, test.test_id))
                          ELSE error_groups[n]])

\* "Import" in error_type: of the types _extract_error_type returns only
\* ImportError holds the text
HasImport(error_type) == error_type = "ImportError"

\* the actions of get_actionable_items before the sort: one action for each
\* error type of the failed cases (lines 71-78), one for the skipped cases,
\* one for the flaky tests
ActionsOf(data, flaky_tests_found) ==
    LET error_groups == ErrorGroups(get_failed_tests(data), <<>>)
        skipped_count == OutcomeCount(data.tests, "skipped")
    IN  [n \in DOMAIN error_groups |->
            [priority |-> IF HasImport(error_groups[n].key) THEN "critical" ELSE "high",
             error_type |-> error_groups[n].key,
             affected_tests |-> error_groups[n].value,
             count |-> Len(error_groups[n].value),
             suggested_fix |-> _suggest_fix(error_groups[n].key)]]
        \o (IF skipped_count > 0
            THEN <<[priority |-> "high", error_type |-> "SkippedTests",
                    affected_tests |-> <<>>, count |-> skipped_count,
                    suggested_fix |-> "Enable skipped tests - they may hide failures"]>>
            ELSE <<>>)
        \o (IF flaky_tests_found # EmptyDict
            THEN <<[priority |-> "medium", error_type |-> "FlakyTests",
                    affected_tests |-> DOMAIN flaky_tests_found,
                    count |-> Cardinality(DOMAIN flaky_tests_found),
                    suggested_fix |-> "Investigate test instability - these tests have inconsistent results",
                    details |-> flaky_tests_found]>>
            ELSE <<>>)

\* sorted(actions, key=priority rank): the sort is stable
get_actionable_items(data, flaky_tests_found) ==
    LET actions == ActionsOf(data, flaky_tests_found)
    IN  SelectSeq(actions, LAMBDA a : a.priority = "critical")
        \o SelectSeq(actions, LAMBDA a : a.priority = "high")
        \o SelectSeq(actions, LAMBDA a : a.priority = "medium")

adapterFrame == <<trends, verification_log, report, record, original, tamper, verify_result,
                  verify_calls, output_file, detectorVars, scoreVars, monitorVars,
                  storageVars, honeypotVars>>

\* AgentReportAdapter(json_report_path, project_name): the report is loaded;
\* history_tracker = TestHistoryTracker() if TestHistoryTracker else None
\* (line 24), and a tracker made loads the stored history
NewAdapter(data) ==
    /\ adapter' = [data |-> data, project_name |-> "p1",
                   history_tracker |-> TestHistoryTracker # None]
    /\ detect_calls' = 0
    /\ adapter_answer' = NoResult
    /\ history' = IF TestHistoryTracker # None THEN history_file ELSE history
    /\ UNCHANGED <<clock, history_file, flaky_file, analysed, flaky_tests, adapterFrame>>

\* the body of detect_flaky_tests(threshold=0.3): without a tracker nothing
\* happens; with one the report's run is added to the history and the flaky
\* tests of the project are read and filtered.  The answer is handed to
\* Answer, which makes the caller's return value of it.
detect_flaky_tests(Answer(_)) ==
    /\ detect_calls' = detect_calls + 1
    /\ IF adapter.history_tracker
       THEN /\ RunsAdded < MaxAdapterRuns
            /\ add_test_run(adapter.project_name, AdapterResults(adapter.data))
            /\ adapter_answer' =
                   Answer(FlakyAboveThreshold(flaky_file', adapter.project_name, 300))
       ELSE /\ adapter_answer' = Answer(EmptyDict)
            /\ UNCHANGED <<clock, history, history_file, flaky_file, analysed, flaky_tests>>
    /\ UNCHANGED <<adapter, adapterFrame>>

\* adapter.detect_flaky_tests()
DetectFlakyTests ==
    /\ adapter # NoResult
    /\ detect_calls < MaxDetectCalls
    /\ detect_flaky_tests(LAMBDA found : [flaky_tests |-> found])

\* adapter.get_actionable_items(), which calls detect_flaky_tests
GetActionableItems ==
    /\ adapter # NoResult
    /\ detect_calls < MaxDetectCalls
    /\ detect_flaky_tests(LAMBDA found :
                             [actions |-> get_actionable_items(adapter.data, found)])

\* TestHistoryTracker(): no history file and no flaky file yet
TrackerInit ==
    /\ history = EmptyDict
    /\ history_file = EmptyDict
    /\ flaky_file = EmptyDict
    /\ analysed = None
    /\ flaky_tests = EmptyDict
    /\ trends = NoResult
    /\ adapter = NoResult
    /\ detect_calls = 0
    /\ adapter_answer = NoResult

\* the state of a verifier whose caller never uses it
VerifierIdle ==
    /\ clock = 0
    /\ report = EmptyReport
    /\ verification_log = [v \in Verifiers |-> <<>>]
    /\ record = NoRecord
    /\ original = NoRecord
    /\ tamper = None
    /\ verify_result = None
    /\ verify_calls = 0
    /\ output_file = NoRecord
    /\ hex_chars = AllDigitsDigest

----------------------------------------------------------------------------
(* ComprehensiveAnalyzer._calculate_scores *)

\* a score k / Grid or c / 10 is held as the integer number of 1 / Scale
Scale == 10 * Grid
Ratio(k)  == 10 * k       \* k / Grid
Tenths(c) == Grid * c     \* c / 10
One       == Scale        \* 1.0

\* len(hall_data.get("hallucinations", [])) as tried
HallucinationCounts == {0, 1, 2, 10, 12}

\* results["analyzers"] of one pass: the fields _calculate_scores reads
SignalBundles ==
    [mock_detector : [total_tests : {0, Grid}, integration_tests_with_mocks : 0..Grid],
     implementation_verifier : [overall_skeleton_ratio : 0..Grid],
     honeypot_enforcer : [manipulation_detected : BOOLEAN],
     realtime_monitor : [total_tests : {0, Grid}, instant_tests : 0..Grid],
     hallucination_monitor : [hallucinations : HallucinationCounts],
     pattern_analyzer : [deception_score : 0..Grid]]

\* x > 0.3 and x > 0.5 for x in units of 1 / Scale
Above03(x) == 10 * x > 3 * Scale
Above05(x) == 2 * x > Scale

\* the list deception_factors, in the order of the checks
DeceptionFactors(a) ==
    LET mock_data == a.mock_detector
        mock_abuse_ratio == Ratio(mock_data.integration_tests_with_mocks)
        skeleton_ratio == Ratio(a.implementation_verifier.overall_skeleton_ratio)
        rt_data == a.realtime_monitor
        instant_ratio == Ratio(rt_data.instant_tests)
        hallucination_count == a.hallucination_monitor.hallucinations
        pattern_score == Ratio(a.pattern_analyzer.deception_score)
    IN  (IF mock_data.total_tests > 0 /\ Above03(mock_abuse_ratio)
         THEN <<<<"mock_abuse", mock_abuse_ratio>>>> ELSE <<>>)
        \o
        (IF Above03(skeleton_ratio)
         THEN <<<<"skeleton_code", skeleton_ratio>>>> ELSE <<>>)
        \o
        (IF a.honeypot_enforcer.manipulation_detected
         THEN <<<<"honeypot_manipulation", One>>>> ELSE <<>>)
        \o
        (IF rt_data.total_tests > 0 /\ Above03(instant_ratio)
         THEN <<<<"instant_tests", instant_ratio>>>> ELSE <<>>)
        \o
        (IF hallucination_count > 0
         THEN <<<<"hallucinations", Min(Tenths(hallucination_count), One)>>>> ELSE <<>>)
        \o
        (IF Above05(pattern_score)
         THEN <<<<"deception_patterns", pattern_score>>>> ELSE <<>>)

RECURSIVE SumScores(_)
SumScores(factors) ==
    IF factors = <<>> THEN 0 ELSE Head(factors)[2] + SumScores(Tail(factors))

\* variant: deception_score is the sum of the factors, not their mean
_calculate_scores_Sum(a) ==
    LET deception_factors == DeceptionFactors(a)
        d == Scale
        n == SumScores(deception_factors)
    IN  [deception_score |-> [n |-> n, d |-> d],
         trust_score |-> [n |-> Max(0, d - n), d |-> d],
         deception_indicators |->
             [i \in DOMAIN deception_factors |-> deception_factors[i][1]]]

\* what _calculate_scores writes into results: deception_score =
\* sum / len(deception_factors) and trust_score = max(0, 1 - deception_score),
\* both as fractions n / d
_calculate_scores(a) ==
    LET deception_factors == DeceptionFactors(a)
        d == IF deception_factors # <<>> THEN Len(deception_factors) * Scale ELSE Scale
        n == SumScores(deception_factors)
    IN  [deception_score |-> [n |-> n, d |-> d],
         trust_score |-> [n |-> Max(0, d - n), d |-> d],
         deception_indicators |->
             [i \in DOMAIN deception_factors |-> deception_factors[i][1]]]

\* x <= y on the fractions that stand for two scores; the floats of the code
\* compare alike when the two are the scores of a bundle and of the bundle
\* with one signal raised, and when both are k / Scale
Leq(x, y) == x.n * y.d <= y.n * x.d

\* the bundles that differ from a in one signal, which is higher
RaisedBundles(a) ==
    {[a EXCEPT !.mock_detector.integration_tests_with_mocks = k] :
        k \in (a.mock_detector.integration_tests_with_mocks + 1)..Grid}
    \cup {[a EXCEPT !.implementation_verifier.overall_skeleton_ratio = k] :
        k \in (a.implementation_verifier.overall_skeleton_ratio + 1)..Grid}
    \cup {[a EXCEPT !.honeypot_enforcer.manipulation_detected = TRUE] :
        k \in IF a.honeypot_enforcer.manipulation_detected THEN {} ELSE {1}}
    \cup {[a EXCEPT !.realtime_monitor.instant_tests = k] :
        k \in (a.realtime_monitor.instant_tests + 1)..Grid}
    \cup {[a EXCEPT !.hallucination_monitor.hallucinations = k] :
        k \in {c \in HallucinationCounts : c > a.hallucination_monitor.hallucinations}}
    \cup {[a EXCEPT !.pattern_analyzer.deception_score = k] :
        k \in (a.pattern_analyzer.deception_score + 1)..Grid}

\* analyze_project has collected the signals: self._calculate_scores(results)
CalculateScores ==
    /\ scores = NoResult
    /\ summary = NoResult
    /\ scores' = _calculate_scores(analyzers)
    /\ UNCHANGED <<analyzers, prev_scores, summary, verifierVars, detectorVars, trackerVars,
                   monitorVars, storageVars, honeypotVars>>

\* a further pass over the same project, one signal being higher than before
RaiseSignal ==
    /\ scores # NoResult
    /\ prev_scores = NoResult
    /\ \E a \in RaisedBundles(analyzers) :
          /\ analyzers' = a
          /\ scores' = _calculate_scores(a)
    /\ prev_scores' = scores
    /\ UNCHANGED <<summary, verifierVars, detectorVars, trackerVars, monitorVars, storageVars, honeypotVars>>

\* "high" if trust_score > 0.8 else "medium" if trust_score > 0.5 else "low"
trust_level(trust_score) ==
    IF 10 * trust_score.n > 8 * trust_score.d THEN "high"
    ELSE IF 10 * trust_score.n > 5 * trust_score.d THEN "medium"
    ELSE "low"

\* x + y on fractions
PlusFraction(x, y) == [n |-> x.n * y.d + y.n * x.d, d |-> x.d * y.d]

\* sum(r["trust_score"] for r in all_results.values())
RECURSIVE SumTrust(_)
SumTrust(all_results) ==
    IF all_results = <<>> THEN [n |-> 0, d |-> 1]
    ELSE PlusFraction(Head(all_results).value.trust_score, SumTrust(Tail(all_results)))

\* the loop "Categorize projects" (lines 305-314) over the items of
\* all_results: each project is appended to the list of its trust_level
RECURSIVE Categorize(_, _)
Categorize(all_results, projects_by_trust) ==
    IF all_results = <<>> THEN projects_by_trust
    ELSE LET project == Head(all_results).key
             results == Head(all_results).value
             level == trust_level(results.trust_score)
             listed == IF level \in DOMAIN projects_by_trust
                       THEN projects_by_trust[level] ELSE <<>>
         IN  Categorize(Tail(all_results),
                 DictSet(projects_by_trust, level,
                         Append(listed, [project |-> project,
                                         trust_score |-> results.trust_score,
                                         issues |-> results.deception_indicators])))

\* all_issues (lines 317-319): the deception_indicators of every project
RECURSIVE AllIssues(_)
AllIssues(all_results) ==
    IF all_results = <<>> THEN <<>>
    ELSE Head(all_results).value.deception_indicators \o AllIssues(Tail(all_results))

\* the comparative summary (lines 296-327) over all_results, an ordered dict
\* of project name and results; the timestamp is left out, and
\* average_trust_score and percentage are held as fractions
ComparativeSummary(all_results) ==
    LET all_issues == AllIssues(all_results)
        count(issue) == Cardinality({n \in DOMAIN all_issues : all_issues[n] = issue})
        sum == SumTrust(all_results)
    IN  [total_projects |-> Len(all_results),
         average_trust_score |-> [n |-> sum.n, d |-> sum.d * Len(all_results)],
         projects_by_trust |-> Categorize(all_results, EmptyDict),
         common_issues |->
             [issue \in {all_issues[n] : n \in {k \in DOMAIN all_issues :
                                                    count(all_issues[k]) > 1}} |->
                 [count |-> count(issue),
                  percentage |-> [n |-> count(issue) * 100, d |-> Len(all_results)]]]]

\* all_results[project_name] = results on the ordered dict all_results
SetResults(all_results, project_name, results) ==
    IF \E n \in DOMAIN all_results : all_results[n].key = project_name
    THEN [n \in DOMAIN all_results |->
             IF all_results[n].key = project_name THEN Item(project_name, results)
             ELSE all_results[n]]
    ELSE Append(all_results, Item(project_name, results))

\* the loop over project_paths (lines 290-294): analyze_project on each path,
\* whose results are the scores of the signals found there
RECURSIVE AnalyzeEach(_, _, _)
AnalyzeEach(project_paths, signals, all_results) ==
    IF project_paths = <<>> THEN all_results
    ELSE AnalyzeEach(Tail(project_paths), signals,
                     SetResults(all_results, Head(project_paths),
                                _calculate_scores(signals[Head(project_paths)])))

\* analyze_multiple_projects(project_paths), the analyzers finding the signals
\* given in each project
analyze_multiple_projects(project_paths, signals) ==
    LET all_results == AnalyzeEach(project_paths, signals, <<>>)
    IN  [individual_results |-> all_results,
         summary |-> ComparativeSummary(all_results)]

\* the signals of a project in which the analyzers find nothing
NoSignals ==
    [mock_detector |-> [total_tests |-> 0, integration_tests_with_mocks |-> 0],
     implementation_verifier |-> [overall_skeleton_ratio |-> 0],
     honeypot_enforcer |-> [manipulation_detected |-> FALSE],
     realtime_monitor |-> [total_tests |-> 0, instant_tests |-> 0],
     hallucination_monitor |-> [hallucinations |-> 0],
     pattern_analyzer |-> [deception_score |-> 0]]

\* the signals tried for the second project: none, two hallucinations, ten
\* hallucinations and a manipulated honeypot
OtherSignals ==
    {NoSignals,
     [NoSignals EXCEPT !.hallucination_monitor.hallucinations = 2],
     [NoSignals EXCEPT !.hallucination_monitor.hallucinations = 10,
                       !.honeypot_enforcer.manipulation_detected = TRUE]}

\* the lists of projects tried: the project alone, after a second one, and
\* named twice around the second one
ProjectPaths == {<<"p1">>, <<"p2", "p1">>, <<"p1", "p2", "p1">>}

\* analyzer.analyze_multiple_projects(project_paths) on an analyzer not used
\* before: "p1" holds the signals of analyzers, "p2" those of other
AnalyzeMultipleProjects(project_paths, other) ==
    /\ scores = NoResult
    /\ summary = NoResult
    /\ summary' = analyze_multiple_projects(project_paths,
                                            [project \in {"p1", "p2"} |->
                                                IF project = "p1" THEN analyzers ELSE other])
    /\ UNCHANGED <<analyzers, scores, prev_scores, verifierVars, detectorVars, trackerVars,
                   monitorVars, storageVars, honeypotVars>>

ScoresInit ==
    /\ analyzers \in SignalBundles
    /\ scores = NoResult
    /\ prev_scores = NoResult
    /\ summary = NoResult

\* the state of an analyzer that is never run
ScoresIdle ==
    /\ analyzers = NoResult
    /\ scores = NoResult
    /\ prev_scores = NoResult
    /\ summary = NoResult

----------------------------------------------------------------------------
(* HallucinationMonitor *)

alert_threshold == 5   \* self.alert_threshold

ValueError == "ValueError"

\* d.get(key, default)
Get(d, key, default) == IF key \in DOMAIN d THEN d[key] ELSE default

\* d[key] += 1 on a defaultdict(int)
Increment(d, key) == DictSet(d, key, Get(d, key, 0) + 1)

\* the value that the defaultdict self.metrics makes for a new project
NewMetrics ==
    [total_checks |-> 0,
     hallucinations_detected |-> 0,
     severity_breakdown |-> EmptyDict,
     common_patterns |-> EmptyDict,
     claude_deceptions |-> EmptyDict]

\* self.metrics[project]
MetricsOf(m, project) == Get(m, project, NewMetrics)

\* variant: only the first detection of a result is tracked
RECURSIVE TrackDetections_FirstOnly(_, _)
TrackDetections_FirstOnly(project_metrics, detections) ==
    IF detections = <<>> THEN project_metrics
    ELSE LET detection == Head(detections)
         IN  [project_metrics EXCEPT
                 !.severity_breakdown = Increment(@, Get(detection, "severity", "unknown")),
                 !.common_patterns = Increment(@, Get(detection, "type", "unknown"))]

\* the loop over detection_result.get("detections", []): one more of its
\* severity and one more of its type for every detection
RECURSIVE TrackDetections(_, _)
TrackDetections(project_metrics, detections) ==
    IF detections = <<>> THEN project_metrics
    ELSE LET detection == Head(detections)
             severity  == Get(detection, "severity", "unknown")
             pattern   == Get(detection, "type", "unknown")
         IN  TrackDetections(
                 [project_metrics EXCEPT
                     !.severity_breakdown = Increment(@, severity),
                     !.common_patterns = Increment(@, pattern)],
                 Tail(detections))

\* "Update metrics": the project's counters after lines 136-146
UpdateMetrics(project_metrics, detection_result) ==
    LET counted == [project_metrics EXCEPT !.total_checks = @ + 1]
    IN  IF Get(detection_result, "hallucinations_detected", FALSE)
        THEN TrackDetections([counted EXCEPT !.hallucinations_detected = @ + 1],
                             Get(detection_result, "detections", <<>>))
        ELSE counted

\* severities.index(severity); 0 stands for the ValueError of a value that is
\* not in the list
SeverityOrder == <<"minor", "major", "critical">>
SeverityIndex(severity) ==
    IF \E i \in DOMAIN SeverityOrder : SeverityOrder[i] = severity
    THEN CHOOSE i \in DOMAIN SeverityOrder : SeverityOrder[i] = severity
    ELSE 0

RECURSIVE MaxSeverityFrom(_, _)
MaxSeverityFrom(max_severity, detections) ==
    IF detections = <<>> THEN max_severity
    ELSE LET severity == Get(Head(detections), "severity", "minor")
         IN  IF SeverityIndex(severity) = 0 THEN ValueError
             ELSE MaxSeverityFrom(
                      IF SeverityIndex(severity) > SeverityIndex(max_severity)
                      THEN severity ELSE max_severity,
                      Tail(detections))

\* _get_max_severity(detection_result): the severity, or the ValueError raised
_get_max_severity(detection_result) ==
    MaxSeverityFrom("minor", Get(detection_result, "detections", <<>>))

\* the event dict of log_hallucination
Event(project, detection_result, context, now) ==
    [timestamp |-> now,
     project |-> project,
     detections |-> Get(detection_result, "detections", <<>>),
     detection_count |-> Get(detection_result, "detection_count", 0),
     context |-> context]

\* the alert dict of _trigger_alert
Alert(project, project_metrics, now) ==
    [project |-> project,
     timestamp |-> now,
     hallucination_count |-> project_metrics.hallucinations_detected,
     total_checks |-> project_metrics.total_checks,
     severity_breakdown |-> project_metrics.severity_breakdown,
     common_patterns |-> project_metrics.common_patterns]

\* variant: the alert is due only above the threshold
AlertDue_Above(project_metrics) == project_metrics.hallucinations_detected > alert_threshold

\* _check_alerts fires for these counters
AlertDue(project_metrics) == project_metrics.hallucinations_detected >= alert_threshold

\* variant: the reset clears every counter of the project
ResetAfterAlert_All(project_metrics) == NewMetrics

\* "Reset counter after alert"
ResetAfterAlert(project_metrics) ==
    [project_metrics EXCEPT !.hallucinations_detected = 0]

\* the callbacks a caller may register: one that returns and one that raises
\* an Exception
Callbacks == {[id |-> "a", raises |-> FALSE], [id |-> "b", raises |-> TRUE]}

\* index of the first callback that raises, or Len + 1
FirstRaising(callbacks) ==
    IF \E i \in DOMAIN callbacks : callbacks[i].raises
    THEN CHOOSE i \in DOMAIN callbacks :
             callbacks[i].raises /\ \A j \in 1..(i - 1) : ~callbacks[j].raises
    ELSE Len(callbacks) + 1

\* variant: the loop ends at the first callback that raises
CallbackCalls_StopAtFailure(callbacks, alert) ==
    [i \in 1..Min(Len(callbacks), FirstRaising(callbacks)) |->
        [callback |-> callbacks[i].id, alert |-> alert]]

\* for callback in self.alert_callbacks: callback(alert), each inside try/except
CallbackCalls(callbacks, alert) ==
    [i \in DOMAIN callbacks |-> [callback |-> callbacks[i].id, alert |-> alert]]

\* the lines logger.error writes for the callbacks that raised
RECURSIVE CallbackErrors(_)
CallbackErrors(callbacks) ==
    IF callbacks = <<>> THEN <<>>
    ELSE (IF Head(callbacks).raises
          THEN <<[level |-> "ERROR", message |-> "Alert callback failed",
                  data |-> Head(callbacks).id]>>
          ELSE <<>>)
         \o CallbackErrors(Tail(callbacks))

\* the line written for the event, by severity
EventLine(project, max_severity, event) ==
    IF max_severity = "critical"
    THEN [level |-> "ERROR", message |-> "CRITICAL hallucination", data |-> event]
    ELSE [level |-> "INFO", message |-> "Hallucination detected", data |-> event]

AlertLine(alert) ==
    [level |-> "WARNING", message |-> "ALERT: High hallucination rate", data |-> alert]

\* what check_response returns for a list of detections
DetectionResult(detections) ==
    [hallucinations_detected |-> Len(detections) > 0,
     detection_count |-> Len(detections),
     detections |-> detections,
     response_verified |-> Len(detections) = 0]

\* check_response results: an exact claim; a claim with wrong numbers that
\* quotes the hash; a claim with the right numbers that omits the hash
CleanResult == DetectionResult(<<>>)
NumbersWrong ==
    DetectionResult(<<Detection("missing_failure_count", "critical"),
                      Detection("incorrect_success_rate", "critical")>>)
HashMissing == DetectionResult(<<Detection("missing_verification", "high")>>)

\* the detection_result of tests/monitoring/test_hallucination_monitor.py: it
\* has detections and no key "hallucinations_detected"
FlaglessResult ==
    [detections |-> <<Detection("count_mismatch", "critical")>>,
     detection_count |-> 1,
     has_hallucination |-> TRUE,
     severity |-> "HIGH"]

MonitorResults == {CleanResult, NumbersWrong, HashMissing, FlaglessResult}

Context == [run_id |-> "run"]

\* monitor.add_alert_callback(callback): the list takes whatever it is given,
\* a callback that it holds already included
AddAlertCallback(callback) ==
    /\ Len(alert_callbacks) < MaxCallbacks
    /\ alert_callbacks' = Append(alert_callbacks, callback)
    /\ UNCHANGED <<enable_alerts, metrics, logger, alerts, callback_calls,
                   report_files, log_outcome, threads, calls, deceptions, backgroundVars,
                   verifierVars, detectorVars, trackerVars, scoreVars,
                   storageVars, honeypotVars>>

\* monitor.log_hallucination(project, detection_result, context): the metrics
\* update, the log line, the alert check with its callbacks and reset, and the
\* line appended to the project's report file; a ValueError of
\* _get_max_severity ends the call after the metrics update
LogHallucination(project, detection_result) ==
    /\ Len(calls) < MaxLogCalls
    /\ project # "p1" =>
          (Len(calls) < MaxOtherProject /\ detection_result = NumbersWrong)
    /\ detection_result = FlaglessResult => Len(calls) < MaxFlagless
    /\ LET event == Event(project, detection_result, Context, clock)
           counted == DictSet(metrics, project,
                              UpdateMetrics(MetricsOf(metrics, project), detection_result))
           max_severity == _get_max_severity(detection_result)
           fires == enable_alerts /\ AlertDue(counted[project])
           alert == Alert(project, counted[project], clock)
       IN  IF max_severity = ValueError
           THEN /\ metrics' = counted
                /\ log_outcome' = ValueError
                /\ UNCHANGED <<logger, alerts, callback_calls, report_files>>
           ELSE /\ logger' = Append(logger, EventLine(project, max_severity, event))
                              \o (IF fires
                                  THEN <<AlertLine(alert)>> \o CallbackErrors(alert_callbacks)
                                  ELSE <<>>)
                /\ alerts' = IF fires THEN Append(alerts, alert) ELSE alerts
                /\ callback_calls' = IF fires
                                     THEN callback_calls \o CallbackCalls(alert_callbacks, alert)
                                     ELSE callback_calls
                /\ metrics' = IF fires
                              THEN DictSet(counted, project, ResetAfterAlert(counted[project]))
                              ELSE counted
                /\ report_files' = DictSet(report_files, project,
                                           Append(Get(report_files, project, <<>>), event))
                /\ log_outcome' = "returned"
    /\ calls' = Append(calls, [project |-> project, detection_result |-> detection_result])
    /\ clock' = clock + 1
    /\ UNCHANGED <<enable_alerts, alert_callbacks, threads, deceptions, backgroundVars,
                   report, verification_log, record, original, tamper,
                   verify_result, verify_calls, output_file,
                   detectorVars, trackerVars, scoreVars, storageVars, honeypotVars>>

\* HallucinationMonitor(log_dir, enable_alerts), but for its callbacks
MonitorUnused ==
    /\ enable_alerts \in BOOLEAN
    /\ metrics = EmptyDict
    /\ logger = <<>>
    /\ alerts = <<>>
    /\ callback_calls = <<>>
    /\ report_files = EmptyDict
    /\ log_outcome = None
    /\ calls = <<>>
    /\ deceptions = <<>>
    /\ monitoring_active = FALSE
    /\ monitor_thread = 0
    /\ loops = <<>>
    /\ caller_pc = "idle"
    /\ background_calls = <<>>

\* HallucinationMonitor(log_dir, enable_alerts)
MonitorFresh == MonitorUnused /\ alert_callbacks = <<>>

\* a monitor that is used by one thread
MonitorInit == MonitorFresh /\ threads = EmptyDict

\* the state of a monitor that is never used
MonitorIdle == MonitorInit /\ enable_alerts

----------------------------------------------------------------------------
(* log_hallucination on several threads of one process: no lock is taken, so *)
(* each read-modify-write of a counter is a read step and a write step, the  *)
(* first access to self.metrics[project] is a call of the defaultdict's      *)
(* factory and the store of what it returns, and every call that             *)
(* log_hallucination, _check_alerts and _trigger_alert make (the logger, the *)
(* clock, dict(), a callback) is a step of its own, between which another    *)
(* thread may run.  With two threads an entry that has been replaced has one *)
(* holder at most.                                                           *)

Threads == {"t1", "t2"}

IdleThread ==
    [pc |-> "idle", detection_result |-> NoResult, timestamp |-> 0, loaded |-> 0,
     i |-> 0, detached |-> FALSE, entry |-> NoResult, alert |-> NoResult]

\* the project all threads log for
SharedProject == "p1"

\* self.metrics[project] with the key made on first access
SharedMetrics == MetricsOf(metrics, SharedProject)
SetShared(project_metrics) == DictSet(metrics, SharedProject, project_metrics)

threadFrame == <<enable_alerts, alert_callbacks, deceptions, backgroundVars, report, verification_log, record,
                 original, tamper, verify_result, verify_calls, output_file, detectorVars,
                 trackerVars, scoreVars, storageVars, honeypotVars>>

\* the positions at which a thread has fetched the project's entry and has
\* still to read it or to write into it
HoldingPcs == {"store_total", "store_detected", "store_severity", "store_pattern",
               "alert_time", "alert_count", "alert_total", "alert_severity", "alert_patterns",
               "alert_line", "callback", "callback_failed", "reset"}

\* the entry that thread t has fetched: self.metrics[project], or, when that
\* entry has been replaced since, the object that the dict no longer holds
Fetched(t) == IF threads[t].detached THEN threads[t].entry ELSE SharedMetrics

\* the write of a thread into the entry it fetched: into self.metrics[project],
\* or into the object that the dict no longer holds
StoreTo(t, project_metrics) ==
    metrics' = IF threads[t].detached THEN metrics ELSE SetShared(project_metrics)

\* the detection the loop of thread t is at, its severity and its type
DetectionAt(t) == Get(threads[t].detection_result, "detections", <<>>)[threads[t].i]
SeverityAt(t) == Get(DetectionAt(t), "severity", "unknown")
PatternAt(t) == Get(DetectionAt(t), "type", "unknown")

\* a thread enters log_hallucination and builds the event
ThreadCall(t, detection_result) ==
    /\ threads[t].pc = "idle"
    /\ threads' = [threads EXCEPT ![t].pc = "load_total",
                                  ![t].detection_result = detection_result,
                                  ![t].timestamp = clock]
    /\ calls' = Append(calls, [project |-> SharedProject,
                               detection_result |-> detection_result])
    /\ clock' = clock + 1
    /\ UNCHANGED <<metrics, logger, alerts, callback_calls, report_files,
                   log_outcome, threadFrame>>

\* self.metrics[project] finds no key: defaultdict.__missing__ calls the
\* factory, the lambda of __init__, and another thread may run before it
\* returns
EnterFactory(t) ==
    /\ threads[t].pc = "load_total"
    /\ SharedProject \notin DOMAIN metrics
    /\ threads' = [threads EXCEPT ![t].pc = "factory"]
    /\ UNCHANGED <<clock, calls, metrics, logger, alerts, callback_calls, report_files,
                   log_outcome, threadFrame>>

\* the factory returns: __missing__ stores the new entry under the key, in
\* place of an entry another thread has stored meanwhile, and the thread reads
\* total_checks of its new entry; a thread that has fetched the old entry
\* writes into the old entry
LeaveFactory(t) ==
    /\ threads[t].pc = "factory"
    /\ metrics' = SetShared(NewMetrics)
    /\ threads' = [u \in DOMAIN threads |->
                      IF u = t
                      THEN [threads[u] EXCEPT !.pc = "store_total",
                                              !.loaded = NewMetrics.total_checks]
                      ELSE IF threads[u].pc \in HoldingPcs /\ ~threads[u].detached
                      THEN [threads[u] EXCEPT !.detached = TRUE, !.entry = SharedMetrics]
                      ELSE threads[u]]
    /\ UNCHANGED <<clock, calls, logger, alerts, callback_calls, report_files,
                   log_outcome, threadFrame>>

\* self.metrics[project]["total_checks"] += 1: the read, the key being there
LoadTotal(t) ==
    /\ threads[t].pc = "load_total"
    /\ SharedProject \in DOMAIN metrics
    /\ threads' = [threads EXCEPT ![t].pc = "store_total",
                                  ![t].loaded = SharedMetrics.total_checks]
    /\ UNCHANGED <<clock, calls, metrics, logger, alerts, callback_calls, report_files,
                   log_outcome, threadFrame>>

\* ... and the write; then the test of detection_result.get("hallucinations_detected")
StoreTotal(t) ==
    /\ threads[t].pc = "store_total"
    /\ StoreTo(t, [SharedMetrics EXCEPT !.total_checks = threads[t].loaded + 1])
    /\ threads' = [threads EXCEPT ![t].detached = FALSE,
                                  ![t].entry = NoResult,
                                  ![t].pc =
                      IF Get(threads[t].detection_result, "hallucinations_detected", FALSE)
                      THEN "load_detected" ELSE "log"]
    /\ UNCHANGED <<clock, calls, logger, alerts, callback_calls, report_files,
                   log_outcome, threadFrame>>

\* self.metrics[project]["hallucinations_detected"] += 1: the read
LoadDetected(t) ==
    /\ threads[t].pc = "load_detected"
    /\ threads' = [threads EXCEPT ![t].pc = "store_detected",
                                  ![t].loaded = SharedMetrics.hallucinations_detected]
    /\ UNCHANGED <<clock, calls, metrics, logger, alerts, callback_calls,
                   report_files, log_outcome, threadFrame>>

\* ... and the write; then the loop over the detections begins
StoreDetected(t) ==
    /\ threads[t].pc = "store_detected"
    /\ StoreTo(t, [SharedMetrics EXCEPT !.hallucinations_detected = threads[t].loaded + 1])
    /\ threads' = [threads EXCEPT ![t].detached = FALSE,
                                  ![t].i = 1,
                                  ![t].pc =
                      IF Get(threads[t].detection_result, "detections", <<>>) = <<>>
                      THEN "log" ELSE "load_severity"]
    /\ UNCHANGED <<clock, calls, logger, alerts, callback_calls, report_files,
                   log_outcome, threadFrame>>

\* self.metrics[project]["severity_breakdown"][severity] += 1: the read, which
\* makes the key with 0 when the defaultdict(int) has none
LoadSeverity(t) ==
    /\ threads[t].pc = "load_severity"
    /\ metrics' = SetShared([SharedMetrics EXCEPT !.severity_breakdown =
                                 DictSet(@, SeverityAt(t), Get(@, SeverityAt(t), 0))])
    /\ threads' = [threads EXCEPT ![t].pc = "store_severity",
                                  ![t].loaded = Get(SharedMetrics.severity_breakdown,
                                                    SeverityAt(t), 0)]
    /\ UNCHANGED <<clock, calls, logger, alerts, callback_calls, report_files,
                   log_outcome, threadFrame>>

\* ... and the write
StoreSeverity(t) ==
    /\ threads[t].pc = "store_severity"
    /\ StoreTo(t, [SharedMetrics EXCEPT !.severity_breakdown =
                       DictSet(@, SeverityAt(t), threads[t].loaded + 1)])
    /\ threads' = [threads EXCEPT ![t].detached = FALSE, ![t].entry = NoResult,
                                  ![t].pc = "load_pattern"]
    /\ UNCHANGED <<clock, calls, logger, alerts, callback_calls, report_files,
                   log_outcome, threadFrame>>

\* self.metrics[project]["common_patterns"][pattern] += 1: the read
LoadPattern(t) ==
    /\ threads[t].pc = "load_pattern"
    /\ metrics' = SetShared([SharedMetrics EXCEPT !.common_patterns =
                                 DictSet(@, PatternAt(t), Get(@, PatternAt(t), 0))])
    /\ threads' = [threads EXCEPT ![t].pc = "store_pattern",
                                  ![t].loaded = Get(SharedMetrics.common_patterns,
                                                    PatternAt(t), 0)]
    /\ UNCHANGED <<clock, calls, logger, alerts, callback_calls, report_files,
                   log_outcome, threadFrame>>

\* ... and the write; then the next detection, or the end of the loop
StorePattern(t) ==
    /\ threads[t].pc = "store_pattern"
    /\ StoreTo(t, [SharedMetrics EXCEPT !.common_patterns =
                       DictSet(@, PatternAt(t), threads[t].loaded + 1)])
    /\ threads' = [threads EXCEPT ![t].detached = FALSE,
                                  ![t].i = @ + 1,
                                  ![t].pc =
                      IF threads[t].i < Len(Get(threads[t].detection_result, "detections", <<>>))
                      THEN "load_severity" ELSE "log"]
    /\ UNCHANGED <<clock, calls, logger, alerts, callback_calls, report_files,
                   log_outcome, threadFrame>>

\* "Log based on severity": _get_max_severity and the line of the event
ThreadLog(t) ==
    /\ threads[t].pc = "log"
    /\ LET detection_result == threads[t].detection_result
           max_severity == _get_max_severity(detection_result)
           event == Event(SharedProject, detection_result, Context, threads[t].timestamp)
       IN  IF max_severity = ValueError
           THEN /\ threads' = [threads EXCEPT ![t].pc = "raised"]
                /\ log_outcome' = ValueError
                /\ UNCHANGED logger
           ELSE /\ logger' = Append(logger, EventLine(SharedProject, max_severity, event))
                /\ threads' = [threads EXCEPT ![t].pc =
                                  IF enable_alerts THEN "check" ELSE "save"]
                /\ UNCHANGED log_outcome
    /\ UNCHANGED <<clock, calls, metrics, alerts, callback_calls, report_files, threadFrame>>

\* _check_alerts: project_metrics = self.metrics[project] and the test of the
\* threshold
ThreadCheck(t) ==
    /\ threads[t].pc = "check"
    /\ threads' = [threads EXCEPT ![t].pc =
                      IF AlertDue(SharedMetrics) THEN "alert_time" ELSE "save"]
    /\ UNCHANGED <<clock, calls, metrics, logger, alerts, callback_calls, report_files,
                   log_outcome, threadFrame>>

\* _trigger_alert: the alert dict is begun with datetime.now()
ThreadAlertTime(t) ==
    /\ threads[t].pc = "alert_time"
    /\ threads' = [threads EXCEPT ![t].pc = "alert_count",
                                  ![t].alert = Alert(SharedProject, NewMetrics, clock)]
    /\ UNCHANGED <<clock, calls, metrics, logger, alerts, callback_calls, report_files,
                   log_outcome, threadFrame>>

\* ... metrics["hallucinations_detected"] is read
ThreadAlertCount(t) ==
    /\ threads[t].pc = "alert_count"
    /\ threads' = [threads EXCEPT ![t].pc = "alert_total",
                                  ![t].alert.hallucination_count =
                                      Fetched(t).hallucinations_detected]
    /\ UNCHANGED <<clock, calls, metrics, logger, alerts, callback_calls, report_files,
                   log_outcome, threadFrame>>

\* ... metrics["total_checks"] is read
ThreadAlertTotal(t) ==
    /\ threads[t].pc = "alert_total"
    /\ threads' = [threads EXCEPT ![t].pc = "alert_severity",
                                  ![t].alert.total_checks = Fetched(t).total_checks]
    /\ UNCHANGED <<clock, calls, metrics, logger, alerts, callback_calls, report_files,
                   log_outcome, threadFrame>>

\* ... dict(metrics["severity_breakdown"]) is made
ThreadAlertSeverity(t) ==
    /\ threads[t].pc = "alert_severity"
    /\ threads' = [threads EXCEPT ![t].pc = "alert_patterns",
                                  ![t].alert.severity_breakdown =
                                      Fetched(t).severity_breakdown]
    /\ UNCHANGED <<clock, calls, metrics, logger, alerts, callback_calls, report_files,
                   log_outcome, threadFrame>>

\* ... dict(metrics["common_patterns"]) is made, and the alert dict is built
ThreadAlertPatterns(t) ==
    /\ threads[t].pc = "alert_patterns"
    /\ LET alert == [threads[t].alert EXCEPT
                        !.common_patterns = Fetched(t).common_patterns]
       IN  /\ alerts' = Append(alerts, alert)
           /\ threads' = [threads EXCEPT ![t].pc = "alert_line", ![t].alert = alert]
    /\ UNCHANGED <<clock, calls, metrics, logger, callback_calls, report_files,
                   log_outcome, threadFrame>>

\* self.logger.warning of the alert; then the loop over the callbacks begins
ThreadAlertLine(t) ==
    /\ threads[t].pc = "alert_line"
    /\ logger' = Append(logger, AlertLine(threads[t].alert))
    /\ threads' = [threads EXCEPT ![t].i = 1,
                                  ![t].pc = IF alert_callbacks = <<>>
                                            THEN "reset" ELSE "callback"]
    /\ UNCHANGED <<clock, calls, metrics, alerts, callback_calls, report_files,
                   log_outcome, threadFrame>>

\* callback(alert) of the callback the loop is at: it returns, and the loop
\* goes on, or it raises
ThreadCallback(t) ==
    /\ threads[t].pc = "callback"
    /\ callback_calls' = Append(callback_calls,
                                [callback |-> alert_callbacks[threads[t].i].id,
                                 alert |-> threads[t].alert])
    /\ threads' = [threads EXCEPT
                      ![t].i = IF alert_callbacks[threads[t].i].raises THEN @ ELSE @ + 1,
                      ![t].pc = IF alert_callbacks[threads[t].i].raises
                                THEN "callback_failed"
                                ELSE IF threads[t].i < Len(alert_callbacks)
                                THEN "callback" ELSE "reset"]
    /\ UNCHANGED <<clock, calls, metrics, logger, alerts, report_files,
                   log_outcome, threadFrame>>

\* except Exception: self.logger.error of the callback that raised; the loop
\* goes on
ThreadCallbackFailed(t) ==
    /\ threads[t].pc = "callback_failed"
    /\ logger' = logger \o CallbackErrors(<<alert_callbacks[threads[t].i]>>)
    /\ threads' = [threads EXCEPT
                      ![t].i = @ + 1,
                      ![t].pc = IF threads[t].i < Len(alert_callbacks)
                                THEN "callback" ELSE "reset"]
    /\ UNCHANGED <<clock, calls, metrics, alerts, callback_calls, report_files,
                   log_outcome, threadFrame>>

\* project_metrics["hallucinations_detected"] = 0
ThreadReset(t) ==
    /\ threads[t].pc = "reset"
    /\ StoreTo(t, ResetAfterAlert(SharedMetrics))
    /\ threads' = [threads EXCEPT ![t].detached = FALSE, ![t].entry = NoResult,
                                  ![t].alert = NoResult, ![t].pc = "save"]
    /\ UNCHANGED <<clock, calls, logger, alerts, callback_calls, report_files,
                   log_outcome, threadFrame>>

\* _save_detailed_report, and the call returns
ThreadSave(t) ==
    /\ threads[t].pc = "save"
    /\ report_files' =
           DictSet(report_files, SharedProject,
                   Append(Get(report_files, SharedProject, <<>>),
                          Event(SharedProject, threads[t].detection_result, Context,
                                threads[t].timestamp)))
    /\ threads' = [threads EXCEPT ![t].pc = "done"]
    /\ log_outcome' = "returned"
    /\ UNCHANGED <<clock, calls, metrics, logger, alerts, callback_calls, threadFrame>>

\* a call made before any thread has started
PriorCall ==
    /\ \A t \in Threads : threads[t].pc = "idle"
    /\ Len(calls) + Cardinality(Threads) < MaxLogCalls
    /\ LogHallucination(SharedProject, NumbersWrong)

ThreadResults == {CleanResult, NumbersWrong}

\* the callbacks registered before the threads start: none, or one that
\* returns and one that raises
ThreadCallbacks ==
    {<<>>, <<[id |-> "a", raises |-> FALSE], [id |-> "b", raises |-> TRUE]>>}

----------------------------------------------------------------------------
(* Background monitoring: start_background_monitoring makes a daemon thread *)
(* that runs _background_monitor, a loop which tests monitoring_active,     *)
(* does its checks and sleeps check_interval seconds;                       *)
(* stop_background_monitoring clears the flag and waits in join for at most *)
(* five seconds.  One thread of the caller makes the calls; caller_pc is    *)
(* the place it has reached, and the loops run between its steps.           *)

\* a thread that has been started and has not yet tested the flag
NewLoop == [pc |-> "test", iterations |-> 0]

\* the lines of the logger
BackgroundLine(message) == [level |-> "INFO", message |-> message, data |-> NoResult]
BackgroundFrame == <<enable_alerts, metrics, alert_callbacks, alerts, callback_calls,
                     report_files, log_outcome, calls, deceptions, threads,
                     verifierVars, detectorVars, trackerVars, scoreVars, storageVars,
                     honeypotVars>>

\* monitor.start_background_monitoring(check_interval), lines 223-226: the
\* call returns if monitoring is active, else it sets the flag
StartBackgroundMonitoring ==
    /\ caller_pc = "idle"
    /\ Len(background_calls) < MaxBackgroundCalls
    /\ background_calls' = Append(background_calls, "start")
    /\ IF monitoring_active
       THEN UNCHANGED <<monitoring_active, caller_pc>>
       ELSE /\ monitoring_active' = TRUE
            /\ caller_pc' = "start"
    /\ UNCHANGED <<monitor_thread, loops, logger, BackgroundFrame>>

\* lines 227-232: the thread is made, kept in self.monitor_thread and started
StartThread ==
    /\ caller_pc = "start"
    /\ loops' = Append(loops, NewLoop)
    /\ monitor_thread' = Len(loops) + 1
    /\ caller_pc' = "started"
    /\ UNCHANGED <<monitoring_active, background_calls, logger, BackgroundFrame>>

\* line 233: the log line, and the call returns
StartLogged ==
    /\ caller_pc = "started"
    /\ logger' = Append(logger,
                        BackgroundLine("Background hallucination monitoring started"))
    /\ caller_pc' = "idle"
    /\ UNCHANGED <<monitoring_active, monitor_thread, loops, background_calls,
                   BackgroundFrame>>

\* monitor.stop_background_monitoring(), lines 237-238: the flag is cleared;
\* with a thread the call goes into self.monitor_thread.join(timeout=5)
StopBackgroundMonitoring ==
    /\ caller_pc = "idle"
    /\ Len(background_calls) < MaxBackgroundCalls
    /\ background_calls' = Append(background_calls, "stop")
    /\ monitoring_active' = FALSE
    /\ caller_pc' = IF monitor_thread # 0 THEN "join" ELSE "stopped"
    /\ UNCHANGED <<monitor_thread, loops, logger, BackgroundFrame>>

\* join returns because the thread has ended
JoinEnds ==
    /\ caller_pc = "join"
    /\ loops[monitor_thread].pc = "ended"
    /\ caller_pc' = "stopped"
    /\ UNCHANGED <<monitoring_active, monitor_thread, loops, background_calls, logger,
                   BackgroundFrame>>

\* join(timeout=5) returns after its five seconds, the thread not having
\* ended, wherever it is: before the test of the flag or in the body of the
\* loop when it has not run in that time, or inside
\* time.sleep(check_interval), which lasts 60 seconds by default
JoinTimesOut ==
    /\ caller_pc = "join"
    /\ loops[monitor_thread].pc # "ended"
    /\ caller_pc' = "stopped"
    /\ UNCHANGED <<monitoring_active, monitor_thread, loops, background_calls, logger,
                   BackgroundFrame>>

\* line 240: the log line, and the call returns
StopLogged ==
    /\ caller_pc = "stopped"
    /\ logger' = Append(logger,
                        BackgroundLine("Background hallucination monitoring stopped"))
    /\ caller_pc' = "idle"
    /\ UNCHANGED <<monitoring_active, monitor_thread, loops, background_calls,
                   BackgroundFrame>>

\* what _generate_summary_report logs: the summary of every project's metrics
SummaryLine ==
    [level |-> "INFO", message |-> "Generated summary report",
     data |-> [project \in DOMAIN metrics |->
                  [total_checks |-> metrics[project].total_checks]]]

\* line 244, "while self.monitoring_active": the thread reads the flag and
\* goes into the body of the loop, or ends
LoopTest(t) ==
    /\ t \in DOMAIN loops
    /\ loops[t].pc = "test"
    /\ IF monitoring_active
       THEN /\ loops[t].iterations < MaxIterations
            /\ loops' = [loops EXCEPT ![t] = [pc |-> "check",
                                             iterations |-> loops[t].iterations + 1]]
       ELSE loops' = [loops EXCEPT ![t].pc = "ended"]
    /\ UNCHANGED <<monitoring_active, monitor_thread, caller_pc, background_calls, logger,
                   BackgroundFrame>>

\* lines 245-256: the thread checks the recent outputs (which does nothing),
\* writes the summary if the minute is 0, and goes into time.sleep
LoopCheck(t, minute_is_0) ==
    /\ t \in DOMAIN loops
    /\ loops[t].pc = "check"
    /\ loops' = [loops EXCEPT ![t].pc = "sleeping"]
    /\ logger' = IF minute_is_0 THEN Append(logger, SummaryLine) ELSE logger
    /\ UNCHANGED <<monitoring_active, monitor_thread, caller_pc, background_calls,
                   BackgroundFrame>>

\* time.sleep(check_interval) is over
LoopWakes(t) ==
    /\ t \in DOMAIN loops
    /\ loops[t].pc = "sleeping"
    /\ loops' = [loops EXCEPT ![t].pc = "test"]
    /\ UNCHANGED <<monitoring_active, monitor_thread, caller_pc, background_calls, logger,
                   BackgroundFrame>>

----------------------------------------------------------------------------
(* Several TestHistoryTracker objects over one storage_dir, each in a       *)
(* process of its own and none taking a lock.  Each loads test_history.json *)
(* when it is constructed and rewrites the whole file in _save_history:     *)
(* open(file, 'w') empties the file, json.dump puts the text into the file  *)
(* object's buffer, the buffer is written to the file at the writer's own   *)
(* byte offset whenever it is full, and closing the file writes the rest.   *)
(* How much fits the buffer depends on the platform; here it fills at the   *)
(* end of a run.  self.history is the list of the dict's items in           *)
(* insertion order.  A file is [text |-> pieces], its bytes as the list of  *)
(* the pieces of tokens they are, or EmptyDict while there is no file.      *)

TrackerIds == {"A", "B"}

AbsentTracker ==
    [state |-> "absent", history |-> <<>>, project |-> None,
     old |-> EmptyDict, flushed |-> 0, writes |-> 0, all_flaky_tests |-> EmptyDict]

\* project_name in self.history
Known(items, project_name) == \E k \in DOMAIN items : items[k].key = project_name

\* self.history.get(project_name, [])
RunsIn(items, project_name) ==
    IF Known(items, project_name)
    THEN items[CHOOSE k \in DOMAIN items : items[k].key = project_name].value
    ELSE <<>>

\* self.history[project_name] = runs: a new key goes to the end of the dict
SetRuns(items, project_name, runs) ==
    IF Known(items, project_name)
    THEN [k \in DOMAIN items |->
             IF items[k].key = project_name THEN Item(project_name, runs) ELSE items[k]]
    ELSE Append(items, Item(project_name, runs))

\* the dict without the order of its keys
AsDict(items) ==
    [project_name \in {items[k].key : k \in DOMAIN items} |-> RunsIn(items, project_name)]

\* the tokens of the text json.dump(..., indent=2) writes, each with the line
\* break and the indentation before it:  {   \n}   ,   \n  ]   \n  "p1": [
\* \n    {..a run..}   and the whole text of flaky_tests.json
OpenBrace == [kind |-> "{"]
CloseBrace == [kind |-> "}"]
Comma == [kind |-> ","]
ListEnd == [kind |-> "]"]
KeyToken(project_name) == [kind |-> "key", key |-> project_name]
RunToken(run) == [kind |-> "run", run |-> run]
FlakyToken(all_flaky_tests) == [kind |-> "flaky", flaky |-> all_flaky_tests]

\* what a reader makes of bytes that are no token
Torn == [kind |-> "torn"]

RunBytes == 372          \* a run of one test: the two timestamps have 26 characters,
                         \* the counts and the duration one digit, the name of the
                         \* test two letters and its outcome six
KeyBytes == 10           \* \n  "p1": [
FlakyProjectBytes == 83  \* a project of flaky_tests.json without its tests
FlakyEntryBytes == 237   \* a test of flaky_tests.json without the digits of its numbers
                         \* and the letters of its recent_pattern

\* len(str(n)) of an int n >= 0
RECURSIVE DigitsOf(_)
DigitsOf(n) == IF n < 10 THEN 1 ELSE 1 + DigitsOf(n \div 10)

\* the digits after the point in repr() of a float of so many decimals: the
\* zeros at the end are not written, the first digit always is
RECURSIVE FractionChars(_, _)
FractionChars(units, decimals) ==
    IF decimals = 1 \/ units % 10 # 0 THEN decimals
    ELSE FractionChars(units \div 10, decimals - 1)

\* len(repr(x)) of the float x = units / 10^decimals >= 0
FloatChars(units, decimals) ==
    DigitsOf(units \div 10^decimals) + 1 + FractionChars(units % 10^decimals, decimals)

\* the bytes of one test of flaky_tests.json
EntryBytes(entry) ==
    FlakyEntryBytes + FloatChars(entry.flakiness_score, 3) + FloatChars(entry.pass_rate, 1)
    + FloatChars(entry.fail_rate, 1) + DigitsOf(entry.total_runs)
    + Len(entry.recent_pattern)

\* the bytes of the tests named, a comma after each
RECURSIVE TestsBytes(_, _)
TestsBytes(tests, names) ==
    IF names = {} THEN 0
    ELSE LET name == CHOOSE n \in names : TRUE
         IN  EntryBytes(tests[name]) + 1 + TestsBytes(tests, names \ {name})

\* the bytes of the projects named, a comma after each
RECURSIVE ProjectsBytes(_, _)
ProjectsBytes(all_flaky_tests, names) ==
    IF names = {} THEN 0
    ELSE LET name == CHOOSE n \in names : TRUE
             tests == all_flaky_tests[name].tests
         IN  FlakyProjectBytes + TestsBytes(tests, DOMAIN tests) - 1 + 1
             + ProjectsBytes(all_flaky_tests, names \ {name})

\* len(token)
Bytes(token) ==
    CASE token.kind = "{" -> 1
      [] token.kind = "}" -> 2
      [] token.kind = "," -> 1
      [] token.kind = "]" -> 4
      [] token.kind = "key" -> KeyBytes
      [] token.kind = "run" -> RunBytes
      [] token.kind = "flaky" ->
            1 + ProjectsBytes(token.flaky, DOMAIN token.flaky) - 1 + 2

\* the white space the token begins with
Blank(token) ==
    CASE token.kind \in {"{", ",", "flaky"} -> 0
      [] token.kind = "}" -> 1
      [] token.kind \in {"]", "key"} -> 3
      [] token.kind = "run" -> 5

\* the runs of one project, one at least, as tokens
RECURSIVE RunTokens(_)
RunTokens(runs) ==
    IF Len(runs) = 1 THEN <<RunToken(Head(runs))>>
    ELSE <<RunToken(Head(runs)), Comma>> \o RunTokens(Tail(runs))

\* one item of the dict as tokens
ItemTokens(item) == <<KeyToken(item.key)>> \o RunTokens(item.value) \o <<ListEnd>>

\* the items of the dict as tokens, in the order of the dict
RECURSIVE ItemsTokens(_)
ItemsTokens(items) ==
    IF Len(items) = 1 THEN ItemTokens(Head(items))
    ELSE ItemTokens(Head(items)) \o <<Comma>> \o ItemsTokens(Tail(items))

\* the text json.dump(self.history, f, indent=2) writes: add_test_run has
\* put a run into self.history, and no project in it is without runs
Pieces(items) == <<OpenBrace>> \o ItemsTokens(items) \o <<CloseBrace>>

\* the bytes lo..hi of a token
Piece(token, lo, hi) == [tok |-> token, lo |-> lo, hi |-> hi]

\* what a file holds where nothing was written, below a write beyond its end
Hole(size) == [hole |-> size]

IsHole(piece) == "hole" \in DOMAIN piece

\* the tokens of a text as the pieces they are when all of it is in a file
Whole(tokens) == [n \in DOMAIN tokens |-> Piece(tokens[n], 1, Bytes(tokens[n]))]

\* the number of the piece's bytes
Size(piece) == IF IsHole(piece) THEN piece.hole ELSE piece.hi - piece.lo + 1

\* the number of the bytes of the pieces
RECURSIVE Length(_)
Length(pieces) == IF pieces = <<>> THEN 0 ELSE Size(Head(pieces)) + Length(Tail(pieces))

\* the bytes from + 1 .. to of the piece
Cut(piece, from, to) ==
    IF IsHole(piece) THEN Hole(to - from)
    ELSE Piece(piece.tok, piece.lo + from, piece.lo + to - 1)

\* the bytes from + 1 .. to of the pieces
RECURSIVE Slice(_, _, _)
Slice(pieces, from, to) ==
    IF pieces = <<>> \/ to <= Max(from, 0) THEN <<>>
    ELSE LET size == Size(Head(pieces))
             rest == Slice(Tail(pieces), from - size, to - size)
         IN  IF from >= size THEN rest
             ELSE <<Cut(Head(pieces), Max(from, 0), Min(to, size))>> \o rest

\* the second piece goes on where the first ends: in the same token, or both
\* are holes
Adjoin(p, q) ==
    IF IsHole(p) \/ IsHole(q) THEN IsHole(p) /\ IsHole(q)
    ELSE p.tok = q.tok /\ p.hi + 1 = q.lo

\* the pieces with every two that adjoin made one
RECURSIVE Joined(_)
Joined(pieces) ==
    IF Len(pieces) < 2 THEN pieces
    ELSE IF Adjoin(pieces[1], pieces[2])
    THEN Joined(<<IF IsHole(pieces[1]) THEN Hole(pieces[1].hole + pieces[2].hole)
                  ELSE Piece(pieces[1].tok, pieces[1].lo, pieces[2].hi)>>
                \o Tail(Tail(pieces)))
    ELSE <<Head(pieces)>> \o Joined(Tail(pieces))

\* the file after the bytes from + 1 .. to of the text are written at the
\* offset from: the bytes before them and beyond them stay, and a write
\* beyond the end of the file leaves a hole
OnDisk(pieces, text, from, to) ==
    LET size == Length(pieces)
    IN  Joined(Slice(pieces, 0, Min(from, size))
               \o (IF from > size THEN <<Hole(from - size)>> ELSE <<>>)
               \o Slice(Whole(text), from, to)
               \o Slice(pieces, to, size))

\* the piece is white space only
IsBlank(piece) == ~IsHole(piece) /\ piece.hi <= Blank(piece.tok)

\* the piece is a token but for white space before it
IsEntire(piece) ==
    ~IsHole(piece) /\ piece.lo <= Blank(piece.tok) + 1 /\ piece.hi = Bytes(piece.tok)

\* the tokens the JSON scanner finds in the bytes.  The texts are of one
\* project or of two, each with a run, and are written up to the end of a
\* run or of the text, so the places of a run in two texts differ by 14
\* bytes or not at all: where a token is cut, after its first byte that is
\* not white space or before its last, no JSON value goes on across the cut
Scanned(pieces) ==
    LET seen == SelectSeq(pieces, LAMBDA piece : ~IsBlank(piece))
    IN  [n \in DOMAIN seen |-> IF IsEntire(seen[n]) THEN seen[n].tok ELSE Torn]

\* the token after the n-th is one the grammar has there
Follows(tokens, n) ==
    LET kind == tokens[n].kind
        next == tokens[n + 1].kind
    IN  CASE kind = "{" -> n = 1 /\ next \in {"key", "}"}
          [] kind = "key" -> next \in {"run", "]"}
          [] kind = "run" -> next \in {",", "]"}
          [] kind = "]" -> next \in {",", "}"}
          [] kind = "," -> n > 1 /\ IF tokens[n - 1].kind = "run" THEN next = "run"
                                     ELSE next = "key"
          [] OTHER -> FALSE

\* the tokens are one JSON document, a dict of lists of runs, and nothing
\* but white space follows it
IsDocument(tokens) ==
    /\ Len(tokens) >= 2
    /\ tokens[1] = OpenBrace
    /\ tokens[Len(tokens)] = CloseBrace
    /\ \A n \in 1..(Len(tokens) - 1) : Follows(tokens, n)

\* json.load of a document: the items read so far and the key being read; a
\* key met again keeps its place and starts its list anew
RECURSIVE Loaded(_, _, _)
Loaded(tokens, items, key) ==
    IF tokens = <<>> THEN items
    ELSE IF Head(tokens).kind = "key"
    THEN Loaded(Tail(tokens), SetRuns(items, Head(tokens).key, <<>>), Head(tokens).key)
    ELSE IF Head(tokens).kind = "run"
    THEN Loaded(Tail(tokens),
                SetRuns(items, key, Append(RunsIn(items, key), Head(tokens).run)), key)
    ELSE Loaded(Tail(tokens), items, key)

\* there is a file and json.load of it raises JSONDecodeError
IsPartial(file) == "text" \in DOMAIN file /\ ~IsDocument(Scanned(file.text))

\* _load_history: {} when there is no file, else json.load of it
_load_history(file) ==
    IF "text" \in DOMAIN file THEN Loaded(Scanned(file.text), <<>>, None) ELSE <<>>

\* the bytes are the text of one dict of flaky tests and nothing follows it
IsFlakyDocument(tokens) == Len(tokens) = 1 /\ tokens[1].kind = "flaky"

\* the bytes of the file, none when there is no file
TextOf(file) == IF "text" \in DOMAIN file THEN file.text ELSE <<>>

\* the offsets in the text at which a run ends
Boundaries(text) ==
    {Length(Whole(SubSeq(text, 1, n))) : n \in {k \in DOMAIN text : text[k].kind = "run"}}

Saving(i) == trackers[i].state = "saving"

\* the tracker is in add_test_run
Adding(i) == trackers[i].state \in {"saving", "saved", "loaded", "opened"}

\* the add_test_run calls begun on the shared storage
SavesBegun ==
    Len(ingested) + Len(crashes)
    + Cardinality({i \in TrackerIds : Adding(i) \/ trackers[i].state = "raised"})

storageFrame == <<report, verification_log, record, original, tamper, verify_result,
                  verify_calls, output_file, detectorVars, history, analysed, flaky_tests, trends,
                  adapterVars,
                  scoreVars, monitorVars, honeypotVars>>

\* TestHistoryTracker(storage_dir): _load_history; json.load raises
\* JSONDecodeError on bytes that are not one document
Construct(i) ==
    /\ trackers[i].state = "absent"
    /\ trackers' = [trackers EXCEPT ![i] =
                       IF IsPartial(history_file)
                       THEN [@ EXCEPT !.state = "JSONDecodeError"]
                       ELSE [@ EXCEPT !.state = "ready",
                                      !.history = _load_history(history_file)]]
    /\ UNCHANGED <<clock, history_file, flaky_file, ingested, crashes, storageFrame>>

\* add_test_run up to the open(..., 'w') of _save_history: the run is appended
\* to the tracker's own history and the file is emptied, whoever is writing it
BeginAddTestRun(i, project_name, test_results) ==
    /\ trackers[i].state = "ready"
    /\ SavesBegun < MaxSaves
    /\ OtherProjectRun(project_name, test_results)
    /\ project_name # "p1" => SavesBegun < MaxOtherSaves
    /\ test_results # TrackerReport("passed") => SavesBegun < MaxMixedSaves
    /\ LET run_record == RunRecord(test_results, clock)
           runs == LastN(Append(RunsIn(trackers[i].history, project_name), run_record),
                         HistoryLimit)
       IN  trackers' = [trackers EXCEPT ![i] =
                           [state |-> "saving",
                            history |-> SetRuns(trackers[i].history, project_name, runs),
                            project |-> project_name,
                            old |-> history_file,
                            flushed |-> 0,
                            writes |-> 0,
                            all_flaky_tests |-> EmptyDict]]
    /\ history_file' = [text |-> <<>>]
    /\ clock' = clock + 1
    /\ UNCHANGED <<flaky_file, ingested, crashes, storageFrame>>

\* the buffer is full during json.dump: what it holds, the text up to the end
\* of some run, is written to the file at the tracker's offset
WritePiece(i) ==
    /\ Saving(i)
    /\ trackers[i].writes < MaxBufferWrites
    /\ \E to \in Boundaries(Pieces(trackers[i].history)) :
          /\ to > trackers[i].flushed
          /\ history_file' = [text |-> OnDisk(TextOf(history_file),
                                              Pieces(trackers[i].history),
                                              trackers[i].flushed, to)]
          /\ trackers' = [trackers EXCEPT ![i].flushed = to, ![i].writes = @ + 1]
    /\ UNCHANGED <<clock, flaky_file, ingested, crashes, storageFrame>>

\* the end of the with block of _save_history: the rest of the text is
\* written and the file closed; the tracker stands before _analyze_flaky_tests
CloseFile(i) ==
    /\ Saving(i)
    /\ history_file' = [text |-> OnDisk(TextOf(history_file), Pieces(trackers[i].history),
                                        trackers[i].flushed,
                                        Length(Whole(Pieces(trackers[i].history))))]
    /\ trackers' = [trackers EXCEPT ![i].state = "saved"]
    /\ UNCHANGED <<clock, flaky_file, ingested, crashes, storageFrame>>

\* add_test_run has returned: the run it was given is one of the ingested
IngestedAfter(i) ==
    Append(ingested,
           [project |-> trackers[i].project,
            run_id |-> LET runs == RunsIn(trackers[i].history, trackers[i].project)
                       IN  runs[Len(runs)].run_id])

\* _analyze_flaky_tests over the tracker's own history up to line 206: without
\* a flaky test it returns, and add_test_run with it; else flaky_tests.json,
\* where there is one, is loaded and the project's entry is set in what was
\* loaded.  On bytes that are not one document json.load raises
\* JSONDecodeError, which nothing catches: add_test_run does not return
AnalyzeFlakyTests(i) ==
    /\ trackers[i].state = "saved"
    /\ LET hist == AsDict(trackers[i].history)
           project_name == trackers[i].project
           flaky == IF AnalysisRuns(hist, project_name)
                    THEN FlakyTests(hist[project_name], clock)
                    ELSE EmptyDict
           exists == "text" \in DOMAIN flaky_file
           tokens == Scanned(TextOf(flaky_file))
       IN  IF flaky = EmptyDict
           THEN /\ trackers' = [trackers EXCEPT ![i].state = "ready"]
                /\ ingested' = IngestedAfter(i)
           ELSE IF exists /\ ~IsFlakyDocument(tokens)
           THEN /\ trackers' = [trackers EXCEPT ![i].state = "raised"]
                /\ UNCHANGED ingested
           ELSE /\ trackers' =
                       [trackers EXCEPT
                           ![i].state = "loaded",
                           ![i].all_flaky_tests =
                               DictSet(IF exists THEN tokens[1].flaky ELSE EmptyDict,
                                       project_name,
                                       [updated_at |-> clock, tests |-> flaky])]
                /\ UNCHANGED ingested
    /\ UNCHANGED <<clock, history_file, flaky_file, crashes, storageFrame>>

\* line 208: open(self.flaky_tests_file, 'w') empties flaky_tests.json
OpenFlakyFile(i) ==
    /\ trackers[i].state = "loaded"
    /\ flaky_file' = [text |-> <<>>]
    /\ trackers' = [trackers EXCEPT ![i].state = "opened"]
    /\ UNCHANGED <<clock, history_file, ingested, crashes, storageFrame>>

\* line 209 and the end of the with block: the text of all_flaky_tests, which
\* the buffer holds all of, is written at the offset 0; add_test_run returns
FinishAddTestRun(i) ==
    /\ trackers[i].state = "opened"
    /\ LET text == <<FlakyToken(trackers[i].all_flaky_tests)>>
       IN  flaky_file' = [text |-> OnDisk(TextOf(flaky_file), text, 0,
                                          Length(Whole(text)))]
    /\ ingested' = IngestedAfter(i)
    /\ trackers' = [trackers EXCEPT ![i].state = "ready"]
    /\ UNCHANGED <<clock, history_file, crashes, storageFrame>>

\* the process dies during the save: what its buffer holds is lost and the
\* file stays as the writes so far have left it
Crash(i) ==
    /\ Saving(i)
    /\ crashes' = Append(crashes, [old |-> trackers[i].old,
                                   new |-> [text |-> Whole(Pieces(trackers[i].history))],
                                   left |-> history_file])
    /\ trackers' = [trackers EXCEPT ![i].state = "crashed"]
    /\ UNCHANGED <<clock, history_file, flaky_file, ingested, storageFrame>>

\* the run reports ingested
StorageReports == {TrackerReport("passed"), TrackerReport("failed")}

\* an empty storage_dir and no tracker constructed
StorageInit ==
    /\ trackers = [i \in TrackerIds |-> AbsentTracker]
    /\ ingested = <<>>
    /\ crashes = <<>>

\* the state of a storage_dir that only one tracker uses
StorageIdle == trackers = EmptyDict /\ ingested = <<>> /\ crashes = <<>>

----------------------------------------------------------------------------
(* HoneypotEnforcer *)

\* re.search of a pattern head.*tail (tail empty for a literal pattern) in a
\* text without line breaks
Search(head, tail, text) ==
    \E i \in 0..(Len(text) - Len(head)) :
        /\ SubSeq(text, i + 1, i + Len(head)) = head
        /\ Contains(SubSeq(text, i + Len(head) + 1, Len(text)), tail)

\* self.honeypot_patterns, as <<head, tail>>
honeypot_patterns ==
    <<  \* r"test_honeypot"
      <<L(<<"t", "e", "s", "t", "_", "h", "o", "n", "e", "y", "p", "o", "t">>), <<>>>>,
        \* r"honeypot_test"
      <<L(<<"h", "o", "n", "e", "y", "p", "o", "t", "_", "t", "e", "s", "t">>), <<>>>>,
        \* r"test_.*_honeypot"
      <<L(<<"t", "e", "s", "t", "_">>),
        L(<<"_", "h", "o", "n", "e", "y", "p", "o", "t">>)>>,
        \* r"test_should_fail"
      <<L(<<"t", "e", "s", "t", "_", "s", "h", "o", "u", "l", "d", "_", "f",
        "a", "i", "l">>), <<>>>>,
        \* r"test_expected_failure"
      <<L(<<"t", "e", "s", "t", "_", "e", "x", "p", "e", "c", "t", "e", "d",
        "_", "f", "a", "i", "l", "u", "r", "e">>), <<>>>>,
        \* r"test_deliberate_fail"
      <<L(<<"t", "e", "s", "t", "_", "d", "e", "l", "i", "b", "e", "r", "a",
        "t", "e", "_", "f", "a", "i", "l">>), <<>>>>
    >>

\* the markers honeypot, should_fail, expected_fail, deliberate_fail
honeypot_markers ==
    <<L(<<"h", "o", "n", "e", "y", "p", "o", "t">>),
      L(<<"s", "h", "o", "u", "l", "d", "_", "f", "a", "i", "l">>),
      L(<<"e", "x", "p", "e", "c", "t", "e", "d", "_", "f", "a", "i", "l">>),
      L(<<"d", "e", "l", "i", "b", "e", "r", "a", "t", "e", "_", "f", "a",
      "i", "l">>)>>

\* _is_honeypot_test(test_name)
_is_honeypot_test(test_name) ==
    LET test_name_lower == Lower(test_name)
    IN  \/ \E k \in DOMAIN honeypot_patterns :
              Search(honeypot_patterns[k][1], honeypot_patterns[k][2], test_name_lower)
        \/ \E k \in DOMAIN honeypot_markers :
              Contains(test_name_lower, honeypot_markers[k])

\* the outcomes that count as passing
OutPassed ==
    L(<<"p", "a", "s", "s", "e", "d">>)
OutPass ==
    L(<<"p", "a", "s", "s">>)
OutSuccess ==
    L(<<"s", "u", "c", "c", "e", "s", "s">>)

PassingOutcomes == {OutPassed, OutPass, OutSuccess}

\* variant: the outcome is compared as it is written
IsPassing_ExactCase(outcome) == outcome \in PassingOutcomes

\* outcome.lower() in ['passed', 'pass', 'success']
IsPassing(outcome) == Lower(outcome) \in PassingOutcomes

\* The test_results given to the enforcer is a dict or a list.  A dict whose
\* order of keys is read is [dict |-> its items in insertion order], a list
\* is [list |-> its elements], an int is [int |-> n]; the dict of one test,
\* of which only keys are looked up, is a record.
PyDict(items) == [dict |-> items]
PyList(elements) == [list |-> elements]
PyInt(n) == [int |-> n]

\* key in test_results, which for a list asks for an element equal to the key
HasKey(results, key) ==
    /\ "dict" \in DOMAIN results
    /\ \E k \in DOMAIN results.dict : results.dict[k].key = key

\* test_results[key]
ValueAt(results, key) ==
    results.dict[CHOOSE k \in DOMAIN results.dict : results.dict[k].key = key].value

\* test_results.get(key, default)
ValueOr(results, key, default) ==
    IF HasKey(results, key) THEN ValueAt(results, key) ELSE default

\* isinstance(value, list) and value and isinstance(value[0], dict), and
\* any(k in value[0] for k in ['name', 'nodeid', 'test'])
HoldsTests(value) ==
    /\ "list" \in DOMAIN value
    /\ value.list # <<>>
    /\ DOMAIN value.list[1] \cap {"int", "list", "dict"} = {}
    /\ DOMAIN value.list[1] \cap {"name", "nodeid", "test"} # {}

\* the loop over test_results.items(): the value of the first item, in the
\* order of the dict, that holds tests; [] when there is none
RECURSIVE FirstTests(_)
FirstTests(items) ==
    IF items = <<>> THEN PyList(<<>>)
    ELSE IF HoldsTests(Head(items).value) THEN Head(items).value
    ELSE FirstTests(Tail(items))

\* _extract_tests(test_results): the value under "tests", "test_results" or
\* "results"; else a list as it is given; else the first list of test dicts
\* among the values of the dict; else []
_extract_tests(results) ==
    IF HasKey(results, "tests") THEN ValueAt(results, "tests")
    ELSE IF HasKey(results, "test_results") THEN ValueAt(results, "test_results")
    ELSE IF HasKey(results, "results") THEN ValueAt(results, "results")
    ELSE IF "list" \in DOMAIN results THEN results
    ELSE FirstTests(results.dict)

\* the entries of honeypot_violations, in the order of the tests
RECURSIVE HoneypotViolations(_)
HoneypotViolations(tests) ==
    IF tests = <<>> THEN <<>>
    ELSE LET test == Head(tests)
             test_name == Get(test, "name", Get(test, "nodeid", <<>>))
             outcome == Get(test, "outcome", Get(test, "status", <<>>))
         IN  (IF _is_honeypot_test(test_name) /\ IsPassing(outcome)
              THEN <<[test |-> test_name, status |-> outcome,
                      violation |-> "Honeypot test MUST fail but it passed",
                      severity |-> "critical", file |-> Get(test, "file", "unknown")]>>
              ELSE <<>>)
             \o HoneypotViolations(Tail(tests))

RECURSIVE HoneypotsFound(_)
HoneypotsFound(tests) ==
    IF tests = <<>> THEN 0
    ELSE (IF _is_honeypot_test(Get(Head(tests), "name", Get(Head(tests), "nodeid", <<>>)))
          THEN 1 ELSE 0)
         + HoneypotsFound(Tail(tests))

\* 1.0 - len(honeypot_violations) / honeypot_tests_found as a fraction n / d,
\* and 1.0 when no honeypot test was found
IntegrityScore(violated, found) ==
    IF found > 0 THEN [n |-> found - violated, d |-> found] ELSE [n |-> 1, d |-> 1]

\* the dict check_honeypot_integrity returns
check_honeypot_integrity(results, now) ==
    LET tests == _extract_tests(results).list
        honeypot_violations == HoneypotViolations(tests)
        found == HoneypotsFound(tests)
    IN  [honeypot_tests_found |-> found,
         honeypot_violations |-> honeypot_violations,
         manipulation_detected |-> honeypot_violations # <<>>,
         integrity_score |-> IntegrityScore(Len(honeypot_violations), found),
         timestamp |-> now]

\* the entry _track_manipulation appends
ManipulationEntry(violation) ==
    [timestamp |-> violation.timestamp,
     violations |-> Len(violation.honeypot_violations),
     tests |-> [i \in DOMAIN violation.honeypot_violations |->
                   violation.honeypot_violations[i].test]]

\* test_honeypot_should_fail and test_normal_functionality
HoneypotShouldFail ==
    L(<<"t", "e", "s", "t", "_", "h", "o", "n", "e", "y", "p", "o", "t", "_",
    "s", "h", "o", "u", "l", "d", "_", "f", "a", "i", "l">>)
NormalFunctionality ==
    L(<<"t", "e", "s", "t", "_", "n", "o", "r", "m", "a", "l", "_", "f", "u",
    "n", "c", "t", "i", "o", "n", "a", "l", "i", "t", "y">>)

\* the test names tried: test_honeypot_should_fail, test_normal_functionality,
\* Test_Expected_Failure, test_login_honeypot, deliberate_fail_check
HoneypotNames ==
    {L(<<"t", "e", "s", "t", "_", "h", "o", "n", "e", "y", "p", "o", "t", "_",
     "s", "h", "o", "u", "l", "d", "_", "f", "a", "i", "l">>),
     L(<<"t", "e", "s", "t", "_", "n", "o", "r", "m", "a", "l", "_", "f", "u",
     "n", "c", "t", "i", "o", "n", "a", "l", "i", "t", "y">>),
     L(<<"T", "e", "s", "t", "_", "E", "x", "p", "e", "c", "t", "e", "d", "_",
     "F", "a", "i", "l", "u", "r", "e">>),
     L(<<"t", "e", "s", "t", "_", "l", "o", "g", "i", "n", "_", "h", "o", "n",
     "e", "y", "p", "o", "t">>),
     L(<<"d", "e", "l", "i", "b", "e", "r", "a", "t", "e", "_", "f", "a", "i",
     "l", "_", "c", "h", "e", "c", "k">>)}
\* the outcomes tried: passed, PASSED, success, failed
HoneypotOutcomes ==
    {OutPassed, L(<<"P", "A", "S", "S", "E", "D">>), OutSuccess,
     L(<<"f", "a", "i", "l", "e", "d">>)}
HoneypotCases == [name : HoneypotNames, outcome : HoneypotOutcomes]

\* the lists of at most MaxTests cases
HoneypotLists == UNION {[1..n -> HoneypotCases] : n \in 0..MaxTests}

\* the lists of at most one case
ShortLists == {tests \in HoneypotLists : Len(tests) <= 1}

\* what a dict may hold under a key that is not one of the three known ones:
\* an int, an empty list, a list of ints, a list of dicts that are no tests,
\* a list of tests
OtherValues ==
    {PyInt(3), PyList(<<>>), PyList(<<PyInt(1)>>), PyList(<<[outcome |-> OutPassed]>>)}
    \cup {PyList(<<[name |-> name, outcome |-> OutPassed]>>) :
              name \in {HoneypotShouldFail, NormalFunctionality}}

\* the result formats: a dict with a list under one of the three known keys;
\* the list itself; a dict with one other key; a dict with two keys, written
\* in either order, of which at most one is a known one
HoneypotInputs ==
    {PyDict(<<Item(key, PyList(tests))>>) :
        key \in {"tests", "test_results", "results"}, tests \in HoneypotLists}
    \cup {PyList(tests) : tests \in ShortLists}
    \cup {PyDict(<<Item("cases", PyList(tests))>>) : tests \in ShortLists}
    \cup {PyDict(<<Item(keys[1], first), Item(keys[2], second)>>) :
              keys \in {<<"alpha", "zeta">>, <<"zeta", "alpha">>},
              first \in OtherValues, second \in OtherValues}
    \cup {PyDict(<<Item(keys[1], PyList(first)), Item(keys[2], PyList(second))>>) :
              keys \in {<<"alpha", "tests">>, <<"tests", "alpha">>},
              first \in ShortLists, second \in ShortLists}

\* enforcer.check_honeypot_integrity(test_results)
CheckHoneypotIntegrity ==
    /\ violations = NoResult
    /\ LET result == check_honeypot_integrity(honeypot_input, clock)
       IN  /\ violations' = result
           /\ manipulation_history' =
                  IF result.manipulation_detected
                  THEN Append(manipulation_history, ManipulationEntry(result))
                  ELSE manipulation_history
    /\ clock' = clock + 1
    /\ UNCHANGED <<honeypot_input, report, verification_log, record, original, tamper,
                   verify_result, verify_calls, output_file, detectorVars, trackerVars, scoreVars,
                   monitorVars, storageVars>>

\* HoneypotEnforcer(), and the results it will be given
HoneypotInit ==
    /\ honeypot_input \in HoneypotInputs
    /\ violations = NoResult
    /\ manipulation_history = <<>>

\* the state of an enforcer that is never used
HoneypotIdle ==
    honeypot_input = NoResult /\ violations = NoResult /\ manipulation_history = <<>>

----------------------------------------------------------------------------
(* HallucinationMonitor.detect_claude_deceptions *)

\* the exception a call raised, in the place of what it would have returned
ZeroDivisionError == [raised |-> "ZeroDivisionError"]

\* self.claude_patterns, the entries detect_claude_deceptions reads
claude_patterns ==
    [instant_pass |-> "Test passes in <0.01s (likely not run)",
     perfect_suite |-> "All tests pass with no failures",
     mock_abuse |-> "Integration tests using mocks",
     skeleton_impl |-> "Functions with only pass/NotImplementedError",
     honeypot_pass |-> "Honeypot test that should fail passes"]

\* the texts of the f-strings that follow the number
IntegrationTestsUseMocks ==
    L(<<" ", "i", "n", "t", "e", "g", "r", "a", "t", "i", "o", "n", " ", "t",
    "e", "s", "t", "s", " ", "u", "s", "e", " ", "m", "o", "c", "k", "s">>)
SkeletonFunctionsFound ==
    L(<<" ", "s", "k", "e", "l", "e", "t", "o", "n", " ", "f", "u", "n", "c",
    "t", "i", "o", "n", "s", " ", "f", "o", "u", "n", "d">>)
HoneypotsManipulated ==
    L(<<" ", "h", "o", "n", "e", "y", "p", "o", "t", "s", " ", "m", "a", "n",
    "i", "p", "u", "l", "a", "t", "e", "d">>)
TestsCompletedInstantly ==
    L(<<" ", "t", "e", "s", "t", "s", " ", "c", "o", "m", "p", "l", "e", "t",
    "e", "d", " ", "i", "n", "s", "t", "a", "n", "t", "l", "y">>)
AllTestsPass ==
    L(<<"A", "l", "l", " ", "t", "e", "s", "t", "s", " ", "p", "a", "s", "s",
    " ", "-", " ", "s", "t", "a", "t", "i", "s", "t", "i", "c", "a", "l",
    "l", "y", " ", "u", "n", "l", "i", "k", "e", "l", "y">>)

\* an element of detections["deceptions_found"]
Deception(type, severity, details) ==
    [type |-> type, description |-> claude_patterns[type],
     severity |-> severity, details |-> details]

\* detections["deceptions_found"] after the five checks; mock_result and
\* impl_result are what the two scan_project calls return for the project, a
\* ratio being a fraction n / d
DeceptionsFound(mock_result, impl_result, honeypot_result, test_results) ==
    LET mocks == Get(mock_result, "integration_tests_with_mocks", 0)
        ratio == Get(impl_result, "overall_skeleton_ratio", [n |-> 0, d |-> 1])
        instant_tests == ValueOr(test_results, "instant_tests", PyInt(0)).int
        total_tests == ValueOr(test_results, "total_tests", PyInt(1)).int
    IN  (IF mocks > 0
         THEN <<Deception("mock_abuse", "critical",
                          StrInt(mocks) \o IntegrationTestsUseMocks)>>
         ELSE <<>>)
        \o (IF 10 * ratio.n > 3 * ratio.d
            THEN <<Deception("skeleton_impl", "major",
                             StrInt(impl_result.skeleton_functions)
                                 \o SkeletonFunctionsFound)>>
            ELSE <<>>)
        \o (IF honeypot_result.manipulation_detected
            THEN <<Deception("honeypot_pass", "critical",
                             StrInt(Len(honeypot_result.honeypot_violations))
                                 \o HoneypotsManipulated)>>
            ELSE <<>>)
        \o (IF 5 * instant_tests > total_tests
            THEN <<Deception("instant_pass", "major",
                             StrInt(instant_tests) \o TestsCompletedInstantly)>>
            ELSE <<>>)
        \o (IF ValueOr(test_results, "failed_tests", PyInt(0)).int = 0
               /\ ValueOr(test_results, "total_tests", PyInt(0)).int > 10
            THEN <<Deception("perfect_suite", "minor", AllTestsPass)>>
            ELSE <<>>)

\* "Calculate overall severity and confidence"; the confidence in hundredths
OverallSeverity(deceptions_found) ==
    IF deceptions_found = <<>> THEN [severity |-> "none", confidence |-> 0]
    ELSE IF \E k \in DOMAIN deceptions_found : deceptions_found[k].severity = "critical"
    THEN [severity |-> "critical", confidence |-> 95]
    ELSE IF \E k \in DOMAIN deceptions_found : deceptions_found[k].severity = "major"
    THEN [severity |-> "major", confidence |-> 80]
    ELSE [severity |-> "minor", confidence |-> 60]

\* what detect_claude_deceptions returns, or the ZeroDivisionError of
\* instant_tests / total_tests
detect_claude_deceptions(project_path, scan, now) ==
    LET honeypot_result == check_honeypot_integrity(scan.test_results, now)
        deceptions_found == DeceptionsFound(scan.mock_result, scan.impl_result,
                                            honeypot_result, scan.test_results)
        overall == OverallSeverity(deceptions_found)
    IN  IF ValueOr(scan.test_results, "total_tests", PyInt(1)).int = 0
        THEN ZeroDivisionError
        ELSE [timestamp |-> now,
              project |-> project_path,
              deceptions_found |-> deceptions_found,
              severity |-> overall.severity,
              confidence |-> overall.confidence,
              analyzer_results |-> EmptyDict]

\* "Track Claude-specific patterns": one more of its type for every deception
\* found, in the entry of the project, which the first of them makes
RECURSIVE TrackDeceptions(_, _, _)
TrackDeceptions(m, project_path, deceptions_found) ==
    IF deceptions_found = <<>> THEN m
    ELSE TrackDeceptions(
             DictSet(m, project_path,
                     [MetricsOf(m, project_path) EXCEPT
                         !.claude_deceptions = Increment(@, Head(deceptions_found).type)]),
             project_path, Tail(deceptions_found))

\* the scans tried: a project in which nothing is found; one whose honeypot
\* test passes; one with every sign; one whose results count no test
CleanScan ==
    [mock_result |-> EmptyDict,
     impl_result |-> [overall_skeleton_ratio |-> [n |-> 3, d |-> 10], skeleton_functions |-> 3],
     test_results |->
         PyDict(<<Item("tests", PyList(<<[name |-> NormalFunctionality,
                                          outcome |-> OutPassed]>>)),
                  Item("total_tests", PyInt(5)), Item("failed_tests", PyInt(0)),
                  Item("instant_tests", PyInt(1))>>)]
HoneypotScan ==
    [mock_result |-> [integration_tests_with_mocks |-> 0],
     impl_result |-> [overall_skeleton_ratio |-> [n |-> 0, d |-> 1], skeleton_functions |-> 0],
     test_results |->
         PyDict(<<Item("tests", PyList(<<[name |-> HoneypotShouldFail,
                                          outcome |-> OutPassed]>>)),
                  Item("total_tests", PyInt(1)), Item("failed_tests", PyInt(1)),
                  Item("instant_tests", PyInt(0))>>)]
FullScan ==
    [mock_result |-> [integration_tests_with_mocks |-> 2],
     impl_result |-> [overall_skeleton_ratio |-> [n |-> 1, d |-> 2], skeleton_functions |-> 12],
     test_results |->
         PyDict(<<Item("tests", PyList(<<[name |-> HoneypotShouldFail,
                                          outcome |-> OutPassed]>>)),
                  Item("total_tests", PyInt(11)), Item("failed_tests", PyInt(0)),
                  Item("instant_tests", PyInt(3))>>)]
ZeroTotalScan ==
    [mock_result |-> EmptyDict,
     impl_result |-> EmptyDict,
     test_results |->
         PyDict(<<Item("tests", PyList(<<[name |-> HoneypotShouldFail,
                                          outcome |-> OutPassed]>>)),
                  Item("total_tests", PyInt(0))>>)]
DeceptionScans == {CleanScan, HoneypotScan, FullScan, ZeroTotalScan}

\* monitor.detect_claude_deceptions(project_path, test_results): the honeypot
\* check of self.honeypot_enforcer, which keeps its manipulation history, and
\* the counts in self.metrics
DetectClaudeDeceptions(project_path, scan) ==
    /\ Len(deceptions) < MaxDeceptionCalls
    /\ LET honeypot_result == check_honeypot_integrity(scan.test_results, clock)
           detections == detect_claude_deceptions(project_path, scan, clock)
       IN  /\ manipulation_history' =
                  IF honeypot_result.manipulation_detected
                  THEN Append(manipulation_history, ManipulationEntry(honeypot_result))
                  ELSE manipulation_history
           /\ metrics' = IF detections = ZeroDivisionError THEN metrics
                         ELSE TrackDeceptions(metrics, project_path,
                                              detections.deceptions_found)
           /\ deceptions' = Append(deceptions, detections)
    /\ clock' = clock + 1
    /\ UNCHANGED <<enable_alerts, alert_callbacks, logger, alerts, callback_calls,
                   report_files, log_outcome, threads, calls, backgroundVars,
                   honeypot_input, violations,
                   report, verification_log, record, original, tamper,
                   verify_result, verify_calls, output_file,
                   detectorVars, trackerVars, scoreVars, storageVars>>

\* the call made on a new monitor, before any log_hallucination call
DetectFirst ==
    /\ calls = <<>>
    /\ deceptions = <<>>
    /\ \E scan \in {HoneypotScan, FullScan} : DetectClaudeDeceptions(SharedProject, scan)

----------------------------------------------------------------------------
(* Operations on the verifier *)

Creates == Len(verification_log["v1"]) + Len(verification_log["v2"])

\* time passes
Tick ==
    /\ clock < MaxClock
    /\ clock' = clock + 1
    /\ UNCHANGED <<report, verification_log, record, original, tamper,
                   verify_result, verify_calls, output_file, detectorVars, trackerVars, scoreVars, monitorVars, storageVars, honeypotVars>>

\* record = verifier.create_immutable_test_record(report)
Create(v) ==
    /\ Creates < MaxCreates
    /\ LET rec == create_immutable_test_record(report, clock)
       IN  /\ record' = rec
           /\ original' = rec
           /\ verification_log' =
                  [verification_log EXCEPT ![v] =
                      Append(@, [timestamp |-> rec.verification.timestamp,
                                 hash |-> rec.verification.hash,
                                 failed_count |-> report.failed])]
    /\ tamper' = None
    /\ verify_result' = None
    /\ verify_calls' = 0
    /\ UNCHANGED <<clock, report, output_file, detectorVars, trackerVars, scoreVars, monitorVars, storageVars, honeypotVars>>

\* prompt = verifier.create_llm_prompt_template(report): the record is made
\* (and logged) as in create_immutable_test_record and is written into the
\* prompt text, which is all that the caller gets
CreateLlmPromptTemplate(v) ==
    /\ Creates < MaxCreates
    /\ LET rec == create_immutable_test_record(report, clock)
       IN  verification_log' =
               [verification_log EXCEPT ![v] =
                   Append(@, [timestamp |-> rec.verification.timestamp,
                              hash |-> rec.verification.hash,
                              failed_count |-> report.failed])]
    /\ UNCHANGED <<clock, report, record, original, tamper, verify_result, verify_calls,
                   output_file, detectorVars, trackerVars, scoreVars, monitorVars,
                   storageVars, honeypotVars>>

\* the caller overwrites one field of the record it holds
Tamper(f) ==
    /\ record # NoRecord
    /\ tamper = None
    /\ TamperEnabled(record, f)
    /\ record' = TamperField(record, f)
    /\ tamper' = f
    /\ UNCHANGED <<clock, report, verification_log, original, verify_result,
                   verify_calls, output_file, detectorVars, trackerVars, scoreVars, monitorVars, storageVars, honeypotVars>>

\* verifier.verify_record(record): reads the stored hash, then _calculate_hash
\* works on (and changes) the caller's dict
VerifyRecord ==
    /\ record # NoRecord
    /\ verify_calls < MaxVerify
    /\ LET stored_hash == StoredHash(record)
           calculated_hash == _calculate_hash(record)
       IN  verify_result' = IF stored_hash = calculated_hash THEN "true" ELSE "false"
    /\ record' = AfterCalculateHash(record)
    /\ verify_calls' = verify_calls + 1
    /\ UNCHANGED <<clock, report, verification_log, original, tamper, output_file, detectorVars,
                   trackerVars, scoreVars, monitorVars, storageVars, honeypotVars>>

\* verifier.generate_verification_report(report, output_file): the record is
\* made (and logged) as in create_immutable_test_record, the instructions are
\* added and the text json.dumps(record, indent=2) is written; the file is
\* held as the dict that its text parses to
GenerateVerificationReport(v) ==
    /\ Creates < MaxCreates
    /\ LET rec == generate_verification_report(report, clock)
       IN  /\ output_file' = rec
           /\ verification_log' =
                  [verification_log EXCEPT ![v] =
                      Append(@, [timestamp |-> rec.verification.timestamp,
                                 hash |-> rec.verification.hash,
                                 failed_count |-> report.failed])]
    /\ UNCHANGED <<clock, report, record, original, tamper, verify_result, verify_calls,
                   detectorVars, trackerVars, scoreVars, monitorVars, storageVars,
                   honeypotVars>>

\* record = json.loads(Path(output_file).read_text())
ReadReport ==
    /\ output_file # NoRecord
    /\ record' = output_file
    /\ original' = output_file
    /\ tamper' = None
    /\ verify_result' = None
    /\ verify_calls' = 0
    /\ UNCHANGED <<clock, report, verification_log, output_file,
                   detectorVars, trackerVars, scoreVars, monitorVars, storageVars,
                   honeypotVars>>

\* TestResultVerifier(): nothing created or verified yet
VerifierFresh ==
    /\ clock = 0
    /\ verification_log = [v \in Verifiers |-> <<>>]
    /\ record = NoRecord
    /\ original = NoRecord
    /\ tamper = None
    /\ verify_result = None
    /\ verify_calls = 0
    /\ output_file = NoRecord

\* a fresh verifier and the run report its caller holds
VerifierInit == VerifierFresh /\ report \in Reports

DetectorIdle ==
    /\ response = <<>>
    /\ check_result = NoResult

vars == <<verifierVars, detectorVars, trackerVars, scoreVars, monitorVars, storageVars, honeypotVars>>

\* the record builder and the hash verifier, which compare digests and do not
\* look into them
InitVerifier ==
    VerifierInit /\ hex_chars = AllDigitsDigest /\ template = NoTemplate /\ DetectorIdle /\ TrackerInit /\ ScoresIdle /\ MonitorIdle /\ StorageIdle /\ HoneypotIdle
NextVerifier ==
    \/ Tick
    \/ \E v \in Verifiers : Create(v)
    \/ \E v \in Verifiers : CreateLlmPromptTemplate(v)
    \/ \E f \in TamperFields : Tamper(f)
    \/ VerifyRecord
SpecVerifier == InitVerifier /\ [][NextVerifier]_vars

\* the verification report, written and read back
NextReport ==
    \/ Tick
    \/ \E v \in Verifiers : GenerateVerificationReport(v)
    \/ ReadReport
    \/ VerifyRecord
SpecReport == InitVerifier /\ [][NextReport]_vars

----------------------------------------------------------------------------
(* Operations on the detector *)

\* a digest that belongs to no record
OtherHash == Sha256Hex(NoRecord)

\* a claim text to try: a combination of what it says about the count, the
\* rate, the deployment and the hash, or one of the
\* sample texts of the specification and of the source
Templates ==
    [count : {"nothing", "exact", "wrong"},
     rate : {"nothing", "exact", "no_percent", "nearly_50"},
     deploy : {"nothing", "blocked", "can_deploy", "ready_to_deploy", "safe_to_deploy"},
     hash : {"nothing", "exact", "other"},
     sample : {"none"}]
    \cup
    [count : {"nothing"}, rate : {"nothing"}, deploy : {"nothing"}, hash : {"nothing"},
     sample : {"spec_bad", "main_bad"}]

\* the claim text a template stands for, for the record it is about
RenderText(tpl, rec) ==
    LET n == rec.immutable_facts.failed_count
        r == rec.immutable_facts.exact_success_rate
        h == rec.verification.hash
    IN  CASE tpl.sample = "spec_bad" -> SpecBadClaim
          [] tpl.sample = "main_bad" -> MainBadResponse
          [] OTHER ->
               (CASE tpl.count = "nothing" -> <<>>
                  [] tpl.count = "exact"   -> StrInt(n) \o TestsAreFailing
                  [] tpl.count = "wrong"   -> StrInt(n + 1) \o TestsAreFailing)
               \o
               (CASE tpl.rate = "nothing"    -> <<>>
                  [] tpl.rate = "exact"      -> SuccessRateIs \o StrNum(r) \o Percent \o Stop
                  [] tpl.rate = "no_percent" -> SuccessRateIs \o StrNum(r) \o Stop
                  [] tpl.rate = "nearly_50"  -> Nearly50)
               \o
               (CASE tpl.deploy = "nothing"         -> <<>>
                  [] tpl.deploy = "blocked"         -> DeploymentIsBlocked
                  [] tpl.deploy = "can_deploy"      -> YouCanDeploy
                  [] tpl.deploy = "ready_to_deploy" -> ReadyToDeployText
                  [] tpl.deploy = "safe_to_deploy"  -> SafeToDeploy)
               \o
               (CASE tpl.hash = "nothing" -> <<>>
                  [] tpl.hash = "exact"   -> HashLabel \o h
                  [] tpl.hash = "other"   -> HashLabel \o OtherHash)

\* detector.check_response(text, record), the text written from the record
\* as it was created
CheckResponse ==
    /\ record # NoRecord
    /\ LET text == RenderText(template, original)
       IN  /\ response' = text
           /\ check_result' = check_response(text, record)
    /\ UNCHANGED <<verifierVars, template, hex_chars, trackerVars, scoreVars, monitorVars,
                   storageVars, honeypotVars>>

\* the one record that the claim checker is given, and the one verify_record
\* call that takes the hash out of it
CreateOnce == record = NoRecord /\ Create("v1")
VerifyOnce == verify_calls = 0 /\ VerifyRecord

\* the claim checker, on a record fresh from the record builder and on the
\* same record after a verify_record call
InitDetector ==
    /\ VerifierFresh
    /\ hex_chars \in DigestTexts
    /\ report \in DetectorReports
    /\ template \in Templates
    /\ DetectorIdle
    /\ TrackerInit
    /\ ScoresIdle /\ MonitorIdle /\ StorageIdle /\ HoneypotIdle
NextDetector ==
    \/ CreateOnce
    \/ VerifyOnce
    \/ CheckResponse
SpecDetector == InitDetector /\ [][NextDetector]_vars

\* the flakiness tracker
InitTracker ==
    VerifierIdle /\ template = NoTemplate /\ DetectorIdle /\ TrackerInit /\ ScoresIdle /\ MonitorIdle /\ StorageIdle /\ HoneypotIdle
NextTracker ==
    \E project_name \in Projects, test_results \in TrackerReports :
        AddTestRun(project_name, test_results)
SpecTracker == InitTracker /\ [][NextTracker]_vars

\* the score aggregation
InitScores ==
    VerifierIdle /\ template = NoTemplate /\ DetectorIdle /\ TrackerInit /\ ScoresInit /\ MonitorIdle /\ StorageIdle /\ HoneypotIdle
NextScores ==
    \/ CalculateScores
    \/ RaiseSignal
    \/ \E project_paths \in ProjectPaths, other \in OtherSignals :
          AnalyzeMultipleProjects(project_paths, other)
SpecScores == InitScores /\ [][NextScores]_vars

\* the tracker with timed runs and trend queries
InitTrends ==
    /\ VerifierIdle /\ template = NoTemplate /\ DetectorIdle /\ TrackerInit /\ ScoresIdle
    /\ MonitorIdle /\ StorageIdle /\ HoneypotIdle
NextTrends ==
    \/ \E duration \in Durations : AddTimedRun(duration)
    \/ \E query \in TrendQueries : GetTestTrends(query)
SpecTrends == InitTrends /\ [][NextTrends]_vars

\* the monitor, its calls made one after the other
InitMonitor ==
    /\ VerifierIdle /\ template = NoTemplate /\ DetectorIdle /\ TrackerInit /\ ScoresIdle
    /\ MonitorInit /\ StorageIdle /\ HoneypotIdle
NextMonitor ==
    \/ \E callback \in Callbacks : AddAlertCallback(callback)
    \/ DetectFirst
    \/ \E project \in Projects, detection_result \in MonitorResults :
          LogHallucination(project, detection_result)
SpecMonitor == InitMonitor /\ [][NextMonitor]_vars

\* the monitor, detect_claude_deceptions calls among its log_hallucination calls
LogAmongDeceptions(project, detection_result) ==
    /\ Len(calls) < MaxDeceptionLogCalls
    /\ LogHallucination(project, detection_result)
NextDeceptions ==
    \/ \E project_path \in Projects, scan \in DeceptionScans :
          DetectClaudeDeceptions(project_path, scan)
    \/ \E project \in Projects, detection_result \in MonitorResults :
          LogAmongDeceptions(project, detection_result)
SpecDeceptions == InitMonitor /\ [][NextDeceptions]_vars

\* the monitor with two threads logging for one project
InitThreads ==
    /\ VerifierIdle /\ template = NoTemplate /\ DetectorIdle /\ TrackerInit /\ ScoresIdle
    /\ MonitorUnused /\ alert_callbacks \in ThreadCallbacks
    /\ threads = [t \in Threads |-> IdleThread]
    /\ StorageIdle /\ HoneypotIdle
NextThreads ==
    \/ PriorCall
    \/ \E t \in Threads :
          \/ \E detection_result \in ThreadResults : ThreadCall(t, detection_result)
          \/ EnterFactory(t)
          \/ LeaveFactory(t)
          \/ LoadTotal(t)
          \/ StoreTotal(t)
          \/ LoadDetected(t)
          \/ StoreDetected(t)
          \/ LoadSeverity(t)
          \/ StoreSeverity(t)
          \/ LoadPattern(t)
          \/ StorePattern(t)
          \/ ThreadLog(t)
          \/ ThreadCheck(t)
          \/ ThreadAlertTime(t)
          \/ ThreadAlertCount(t)
          \/ ThreadAlertTotal(t)
          \/ ThreadAlertSeverity(t)
          \/ ThreadAlertPatterns(t)
          \/ ThreadAlertLine(t)
          \/ ThreadCallback(t)
          \/ ThreadCallbackFailed(t)
          \/ ThreadReset(t)
          \/ ThreadSave(t)
SpecThreads == InitThreads /\ [][NextThreads]_vars

\* the monitor with its background thread
InitBackground ==
    /\ VerifierIdle /\ template = NoTemplate /\ DetectorIdle /\ TrackerInit /\ ScoresIdle
    /\ MonitorInit /\ StorageIdle /\ HoneypotIdle
NextBackground ==
    \/ StartBackgroundMonitoring
    \/ StartThread
    \/ StartLogged
    \/ StopBackgroundMonitoring
    \/ JoinEnds
    \/ JoinTimesOut
    \/ StopLogged
    \/ \E t \in 1..MaxBackgroundCalls :
          \/ LoopTest(t)
          \/ \E minute_is_0 \in BOOLEAN : LoopCheck(t, minute_is_0)
          \/ LoopWakes(t)
SpecBackground == InitBackground /\ [][NextBackground]_vars

\* the adapters of successive reports of one project
NextAdapter ==
    \/ \E data \in AdapterData : NewAdapter(data)
    \/ DetectFlakyTests
    \/ GetActionableItems
SpecAdapter == InitTracker /\ [][NextAdapter]_vars

\* the honeypot check
InitHoneypot ==
    /\ VerifierIdle /\ template = NoTemplate /\ DetectorIdle /\ TrackerInit /\ ScoresIdle
    /\ MonitorIdle /\ StorageIdle /\ HoneypotInit
NextHoneypot == CheckHoneypotIntegrity
SpecHoneypot == InitHoneypot /\ [][NextHoneypot]_vars

\* two trackers over one storage_dir
InitStorage ==
    /\ VerifierIdle /\ template = NoTemplate /\ DetectorIdle /\ TrackerInit /\ ScoresIdle
    /\ MonitorIdle /\ StorageInit /\ HoneypotIdle
NextStorage ==
    \E i \in TrackerIds :
        \/ Construct(i)
        \/ \E project_name \in Projects, test_results \in StorageReports :
              BeginAddTestRun(i, project_name, test_results)
        \/ WritePiece(i)
        \/ CloseFile(i)
        \/ AnalyzeFlakyTests(i)
        \/ OpenFlakyFile(i)
        \/ FinishAddTestRun(i)
        \/ Crash(i)
SpecStorage == InitStorage /\ [][NextStorage]_vars

----------------------------------------------------------------------------
(* Properties of the record builder and the hash verifier (SpecVerifier) *)

AllLogEntries ==
    UNION {{verification_log[v][i] : i \in DOMAIN verification_log[v]} : v \in Verifiers}

\* C1: every record built from one report carries the same verification hash,
\* whenever and on whichever verifier instance it is built
C1_SameReportSameHash ==
    \A e1 \in AllLogEntries, e2 \in AllLogEntries : e1.hash = e2.hash

\* C2: verify_record returns true as long as the caller has changed no field,
\* and false once one field under immutable_facts or failed_test_details has
\* been set to a different value
C2_VerifyTrueUntilFactChanged ==
    [][verify_calls' = verify_calls + 1 =>
          /\ tamper = None => verify_result' = "true"
          /\ tamper \in FactFields \cup DetailFields => verify_result' = "false"]_vars

\* C3: verify_record leaves the record it is given unchanged, the stored hash
\* included
C3_VerifyLeavesRecordUnchanged ==
    [][verify_calls' = verify_calls + 1 => record' = record]_vars

RECURSIVE CountOutcome(_, _)
CountOutcome(tests, outcome) ==
    IF tests = <<>> THEN 0
    ELSE (IF Head(tests).outcome = outcome THEN 1 ELSE 0) + CountOutcome(Tail(tests), outcome)

\* C4: the counts in the facts are those of the case list, whatever the
\* aggregates of the report say; without a tests array every count is zero
C4_CountsFromCaseList ==
    original # NoRecord =>
        LET cases == TestsOf(report)
            facts == original.immutable_facts
        IN  /\ facts.total_test_count = Len(cases)
            /\ facts.passed_count = CountOutcome(cases, "passed")
            /\ facts.failed_count = CountOutcome(cases, "failed")
            /\ facts.skipped_count = CountOutcome(cases, "skipped")
            /\ facts.deployment_allowed = (CountOutcome(cases, "failed") = 0)

----------------------------------------------------------------------------
(* Properties of the claim checker (SpecDetector) *)

\* check_response returned a result dict
Returned == "detections" \in DOMAIN check_result

DetectedTypes == {check_result.detections[i].type : i \in DOMAIN check_result.detections}

\* C5: a claim text that holds the failure count, the success rate followed
\* by '%' and the hash of the record, and no deployment-approval phrase, is
\* verified with zero discrepancies
C5_ExactClaimVerifies ==
    (/\ Returned
     /\ Contains(response, StrInt(original.immutable_facts.failed_count))
     /\ Contains(response, StrNum(original.immutable_facts.exact_success_rate) \o Percent)
     /\ Contains(response, original.verification.hash)
     /\ ~AnyPhraseIn(Lower(response)))
    => /\ check_result.detection_count = 0
       /\ check_result.detections = <<>>
       /\ check_result.response_verified
       /\ ~check_result.hallucinations_detected

\* "5 tests are failing. Success rate is 90.0%. Deployment is BLOCKED. Hash: H"
MainGoodResponse ==
    L(<<"5">>) \o TestsAreFailing \o SuccessRateIs \o L(<<"9", "0", ".", "0", "%">>)
    \o Stop \o DeploymentIsBlocked \o HashLabel \o original.verification.hash

\* the good response of the source's example is checked and verified
C5_Witness ==
    /\ report = MainReport
    /\ Returned
    /\ response = MainGoodResponse
    /\ check_result.response_verified

\* the wordings by which a claim text approves deployment
SaysSafeOrApproved(lowered) == Contains(lowered, SafeToDeploy) \/ AnyPhraseIn(lowered)
SaysDeploy(text) == SaysSafeOrApproved(Lower(text))

\* C6: for a record with failures, a claim text that approves deployment and
\* holds neither the failure count nor the hash yields at least three
\* discrepancies, one of them false_deployment_approval
C6_ApprovalDespiteFailures ==
    (/\ Returned
     /\ original.immutable_facts.failed_count > 0
     /\ SaysDeploy(response)
     /\ ~Contains(response, StrInt(original.immutable_facts.failed_count))
     /\ ~Contains(response, original.verification.hash))
    => /\ check_result.detection_count >= 3
       /\ "false_deployment_approval" \in DetectedTypes

\* "33.33%"
Rate3333 == L(<<"3", "3", ".", "3", "3", "%">>)

\* the record's rate is passed / total * 100 of the report to the nearest
\* hundredth (either neighbour where the percentage is midway), the int 0 for an
\* empty run
RateOfReport(rate) ==
    IF report.total = 0 THEN rate = IntNum(0)
    ELSE /\ rate.isfloat
         /\ 2 * Abs(rate.h * report.total - report.passed * 10000) <= report.total

\* the text that states the record's exact_success_rate, followed by '%'
ExpectedRateText == StrNum(original.immutable_facts.exact_success_rate) \o Percent

\* C7: incorrect_success_rate is reported exactly when the claim text does not
\* hold the exact success rate (passed / total * 100 rounded to two decimals, 0
\* for an empty run) followed by '%'; with total = 3 and passed = 1 the rate
\* text is "33.33%" and "nearly 50%" is flagged
C7_RateFlaggedIffAbsent ==
    Returned =>
        /\ RateOfReport(original.immutable_facts.exact_success_rate)
        /\ ("incorrect_success_rate" \in DetectedTypes) <=> ~Contains(response, ExpectedRateText)
        /\ (report.total = 3 /\ report.passed = 1) =>
              /\ ExpectedRateText = Rate3333
              /\ response = Nearly50 => "incorrect_success_rate" \in DetectedTypes

C7_Witness ==
    /\ report = ThirdReport
    /\ Returned
    /\ response = Nearly50
    /\ "incorrect_success_rate" \in DetectedTypes

----------------------------------------------------------------------------
(* Properties of the flakiness tracker (SpecTracker) *)

\* the outcomes of a test in the window of the project's 20 most recent runs
Window(project_name, test_name) ==
    OutcomesOf(LastN(RunsOf(history, project_name), FlakyWindow), test_name)

Mixed(outcomes) ==
    /\ Len(outcomes) >= 3
    /\ \E i \in DOMAIN outcomes : outcomes[i] = "passed"
    /\ \E i \in DOMAIN outcomes : outcomes[i] = "failed"

TenAlternating == <<"passed", "failed", "passed", "failed", "passed", "failed",
                    "passed", "failed", "passed", "failed">>
FivePassOneFail == <<"passed", "passed", "passed", "passed", "passed", "failed">>

\* get_flaky_tests(project_name) reports the test
Reported(project_name, test_name) ==
    LET reported == get_flaky_tests(project_name)
    IN  DOMAIN reported # {} /\ test_name \in DOMAIN reported.tests

\* C8: after an ingestion, a test whose window has at least 3 outcomes with a
\* pass and a failure is reported flaky with flakiness_score exactly
\* 1 - |passes - failures| / window size (1.0 for the even split P,F,P,F,P,F,
\* P,F,P,F, strictly between 0 and 1 for P,P,P,P,P,F), and a test whose
\* window holds no failure is not reported flaky
C8_ExactFlakiness ==
    analysed # None =>
        LET w == Window(analysed, "t1")
            n == Len(w)
            d == Abs(Count(w, "passed") - Count(w, "failed"))
            score == get_flaky_tests(analysed).tests["t1"].flakiness_score
        IN  /\ Mixed(w) => Reported(analysed, "t1") /\ score * n = 1000 * (n - d)
            /\ w = TenAlternating => Reported(analysed, "t1") /\ score = 1000
            /\ w = FivePassOneFail =>
                  Reported(analysed, "t1") /\ score > 0 /\ score < 1000
            /\ (\A k \in DOMAIN w : w[k] # "failed") => ~Reported(analysed, "t1")

\* C9: every test that get_flaky_tests reports for a project has, within the
\* project's 20 most recent runs, at least 3 outcomes with a pass and a failure
C9_ReportedTestsAreFlaky ==
    \A project_name \in Projects :
        LET reported == get_flaky_tests(project_name)
        IN  DOMAIN reported # {} =>
                \A test_name \in DOMAIN reported.tests :
                    Mixed(Window(project_name, test_name))

----------------------------------------------------------------------------
(* Properties of the score aggregation (SpecScores) *)

\* C10: a pass in which one signal is higher and all others are the same
\* yields a deception_score that is not lower and a trust_score that is not
\* higher
C10_RaisingASignalNeverLowersDeception ==
    prev_scores # NoResult =>
        /\ Leq(prev_scores.deception_score, scores.deception_score)
        /\ Leq(scores.trust_score, prev_scores.trust_score)

----------------------------------------------------------------------------
(* What the hash covers (SpecVerifier) *)

\* C16: verify_record on a record whose stored hash is in place finds the
\* recomputed hash equal to it after a change outside immutable_facts and
\* failed_test_details (verification timestamp, version or verifier name,
\* deployment_decision, anti_hallucination_statements), and different after a
\* change of a field of immutable_facts or failed_test_details
C16_HashCoversFactsOnly ==
    [][(verify_calls' = verify_calls + 1 /\ record.verification.hash # AbsentHash) =>
          /\ tamper \in OtherFields => verify_result' = "true"
          /\ tamper \in FactFields \cup DetailFields => verify_result' = "false"
      ]_vars

----------------------------------------------------------------------------
(* Properties of the alert monitor (SpecMonitor, SpecThreads) *)

\* the calls made so far for a project, and those that reported a hallucination
CallsFor(project) == {i \in DOMAIN calls : calls[i].project = project}
ReportedCalls(project) ==
    {i \in CallsFor(project) :
        Get(calls[i].detection_result, "hallucinations_detected", FALSE)}
AlertsFor(project) == {k \in DOMAIN alerts : alerts[k].project = project}

\* C11: with alerts enabled, once exactly alert_threshold calls have reported a
\* hallucination for a project, exactly one alert has fired for it, its
\* hallucination_count is alert_threshold, and the project's
\* hallucinations_detected is 0
C11_ThresholdFiresOneAlert ==
    enable_alerts =>
        \A project \in Projects :
            Cardinality(ReportedCalls(project)) = alert_threshold =>
                /\ Cardinality(AlertsFor(project)) = 1
                /\ \A k \in AlertsFor(project) :
                       alerts[k].hallucination_count = alert_threshold
                /\ MetricsOf(metrics, project).hallucinations_detected = 0

\* C12: the step in which an alert fires makes one invocation for every
\* registration in alert_callbacks, in registration order (a callback that was
\* registered twice stands in the list twice), whether or not one of them
\* raises, and leaves hallucinations_detected at 0
C12_AllCallbacksInOrder ==
    [][alerts' # alerts =>
          LET alert == alerts'[Len(alerts')]
          IN  /\ Len(alerts') = Len(alerts) + 1
              /\ Len(callback_calls') = Len(callback_calls) + Len(alert_callbacks)
              /\ \A i \in DOMAIN alert_callbacks :
                     /\ callback_calls'[Len(callback_calls) + i].callback = alert_callbacks[i].id
                     /\ callback_calls'[Len(callback_calls) + i].alert = alert
              /\ MetricsOf(metrics', alert.project).hallucinations_detected = 0
      ]_vars

\* an alert has fired with a raising callback registered before a returning one
C12_Witness ==
    /\ Len(alerts) = 1
    /\ alert_callbacks = <<[id |-> "b", raises |-> TRUE], [id |-> "a", raises |-> FALSE]>>
    /\ Len(callback_calls) = 2
    /\ callback_calls[1].callback = "b"
    /\ callback_calls[2].callback = "a"
    /\ MetricsOf(metrics, "p1").hallucinations_detected = 0

RECURSIVE SumCounts(_)
SumCounts(fired) ==
    IF fired = <<>> THEN 0 ELSE Head(fired).hallucination_count + SumCounts(Tail(fired))

\* C13: once all concurrent calls have completed, total_checks is the number
\* of calls made and hallucinations_detected, together with the counts that
\* the alerts took away, is the number of calls that reported a hallucination
C13_NoLostUpdate ==
    (threads # EmptyDict /\ \A t \in DOMAIN threads : threads[t].pc = "done") =>
        /\ MetricsOf(metrics, SharedProject).total_checks =
               Cardinality(CallsFor(SharedProject))
        /\ MetricsOf(metrics, SharedProject).hallucinations_detected + SumCounts(alerts) =
               Cardinality(ReportedCalls(SharedProject))

\* the results check_response can return, among those tried
CheckResponseResults == {CleanResult, NumbersWrong, HashMissing}

\* C17: a log_hallucination call with a result of check_response returns
\* without raising and appends exactly one record, with its timestamp, to the
\* project's log file
C17_EveryResultIsLogged ==
    [][(calls' # calls /\ calls'[Len(calls')].detection_result \in CheckResponseResults) =>
          LET project == calls'[Len(calls')].project
              before == Get(report_files, project, <<>>)
              after == Get(report_files', project, <<>>)
          IN  /\ log_outcome' = "returned"
              /\ Len(after) = Len(before) + 1
              /\ SubSeq(after, 1, Len(before)) = before
              /\ after[Len(after)].timestamp = clock
      ]_vars

\* the number of detections whose field has the value
NumberWith(detections, field, value) ==
    Cardinality({i \in DOMAIN detections : Get(detections[i], field, "unknown") = value})

\* the breakdown counters grew by the number of detections of each kind
BreakdownGrewBy(before, after, detections) ==
    /\ \A severity \in DOMAIN after.severity_breakdown \cup DOMAIN before.severity_breakdown :
           Get(after.severity_breakdown, severity, 0) =
               Get(before.severity_breakdown, severity, 0)
                   + NumberWith(detections, "severity", severity)
    /\ \A pattern \in DOMAIN after.common_patterns \cup DOMAIN before.common_patterns :
           Get(after.common_patterns, pattern, 0) =
               Get(before.common_patterns, pattern, 0)
                   + NumberWith(detections, "type", pattern)
    /\ \A i \in DOMAIN detections :
           /\ Get(detections[i], "severity", "unknown") \in DOMAIN after.severity_breakdown
           /\ Get(detections[i], "type", "unknown") \in DOMAIN after.common_patterns

BreakdownSame(before, after) ==
    /\ after.severity_breakdown = before.severity_breakdown
    /\ after.common_patterns = before.common_patterns

\* C19 as stated: every call adds 1 to total_checks; a result with at least
\* one detection adds 1 to hallucinations_detected and 1 to the counters of
\* each detection's severity and type; a result without leaves them unchanged
C19_CountersPerCall ==
    [][calls' # calls =>
          LET call == calls'[Len(calls')]
              detections == Get(call.detection_result, "detections", <<>>)
              before == MetricsOf(metrics, call.project)
              after == MetricsOf(metrics', call.project)
          IN  /\ after.total_checks = before.total_checks + 1
              /\ IF Len(detections) >= 1
                 THEN /\ after.hallucinations_detected = before.hallucinations_detected + 1
                      /\ BreakdownGrewBy(before, after, detections)
                 ELSE /\ after.hallucinations_detected = before.hallucinations_detected
                      /\ BreakdownSame(before, after)
      ]_vars

\* C19 as amended: every call adds 1 to total_checks; a result whose
\* hallucinations_detected flag is set adds 1 to hallucinations_detected and 1
\* to the counters of each detection's severity and type, a result without the
\* flag leaves these counters unchanged; a call that fires an alert ends with
\* hallucinations_detected at 0
C19_CountersPerFlaggedCall ==
    [][calls' # calls =>
          LET call == calls'[Len(calls')]
              flagged == Get(call.detection_result, "hallucinations_detected", FALSE)
              detections == Get(call.detection_result, "detections", <<>>)
              before == MetricsOf(metrics, call.project)
              after == MetricsOf(metrics', call.project)
          IN  /\ after.total_checks = before.total_checks + 1
              /\ after.hallucinations_detected =
                     IF alerts' # alerts THEN 0
                     ELSE before.hallucinations_detected + (IF flagged THEN 1 ELSE 0)
              /\ IF flagged
                 THEN BreakdownGrewBy(before, after, detections)
                 ELSE BreakdownSame(before, after)
      ]_vars

\* the fifth call with two wrong numbers has fired the alert
C19_Witness ==
    /\ Len(calls) = alert_threshold
    /\ \A i \in DOMAIN calls : calls[i] = [project |-> "p1", detection_result |-> NumbersWrong]
    /\ Len(alerts) = 1
    /\ MetricsOf(metrics, "p1").hallucinations_detected = 0
    /\ MetricsOf(metrics, "p1").total_checks = alert_threshold
    /\ MetricsOf(metrics, "p1").severity_breakdown["critical"] = 2 * alert_threshold

\* no counter of before is higher than in after
NotLower(before, after) ==
    /\ after.total_checks >= before.total_checks
    /\ \A severity \in DOMAIN before.severity_breakdown :
           Get(after.severity_breakdown, severity, 0) >= before.severity_breakdown[severity]
    /\ \A pattern \in DOMAIN before.common_patterns :
           Get(after.common_patterns, pattern, 0) >= before.common_patterns[pattern]

\* C20: the step in which an alert fires leaves total_checks,
\* severity_breakdown and common_patterns at the values of the alert's
\* snapshot and sets only hallucinations_detected to 0; no step lowers any of
\* the three
C20_AlertResetsOnlyTheCount ==
    [][/\ \A project \in Projects :
              NotLower(MetricsOf(metrics, project), MetricsOf(metrics', project))
       /\ alerts' # alerts =>
              LET alert == alerts'[Len(alerts')]
                  after == MetricsOf(metrics', alert.project)
              IN  /\ after.total_checks = alert.total_checks
                  /\ after.severity_breakdown = alert.severity_breakdown
                  /\ after.common_patterns = alert.common_patterns
                  /\ alert.total_checks = MetricsOf(metrics, alert.project).total_checks + 1
                  /\ after.hallucinations_detected = 0
      ]_vars

\* an alert has fired and the breakdowns still hold all ten detections
C20_Witness ==
    /\ Len(alerts) = 1
    /\ alerts[1].project = "p1"
    /\ MetricsOf(metrics, "p1").hallucinations_detected = 0
    /\ MetricsOf(metrics, "p1").total_checks >= alert_threshold
    /\ Get(MetricsOf(metrics, "p1").severity_breakdown, "critical", 0) >= 2 * alert_threshold
    /\ Get(MetricsOf(metrics, "p1").common_patterns, "missing_failure_count", 0) >= alert_threshold

----------------------------------------------------------------------------
(* Properties of the honeypot check (SpecHoneypot) *)

\* the positions of the honeypot tests among the tests given, and of those
\* with a passing outcome
HoneypotPositions ==
    LET tests == _extract_tests(honeypot_input).list
    IN  {i \in DOMAIN tests : _is_honeypot_test(tests[i].name)}
PassedHoneypots ==
    LET tests == _extract_tests(honeypot_input).list
    IN  {i \in HoneypotPositions : Lower(tests[i].outcome) \in {OutPassed, OutPass, OutSuccess}}

\* C18: of the tests that _extract_tests finds in the results given,
\* honeypot_tests_found is the number of tests whose name matches a
\* honeypot pattern, manipulation_detected holds exactly when one of them has
\* a passing outcome, and integrity_score is 1 - violations / honeypots found,
\* or 1 when none is found
C18_HoneypotIntegrity ==
    violations # NoResult =>
        LET found == Cardinality(HoneypotPositions)
            passed == Cardinality(PassedHoneypots)
            score == violations.integrity_score
        IN  /\ violations.honeypot_tests_found = found
            /\ Len(violations.honeypot_violations) = passed
            /\ violations.manipulation_detected <=> passed >= 1
            /\ found > 0 => score.n * found = (found - passed) * score.d
            /\ found = 0 => score.n = score.d

\* one of two honeypot tests passed: the score is 0.5
C18_Witness ==
    /\ violations # NoResult
    /\ violations.honeypot_tests_found = 2
    /\ Len(violations.honeypot_violations) = 1
    /\ violations.manipulation_detected
    /\ 2 * violations.integrity_score.n = violations.integrity_score.d
    /\ Len(manipulation_history) = 1

----------------------------------------------------------------------------
(* Properties of the shared history storage (SpecStorage) *)

\* the runs that a reader of test_history.json finds for a project: none
\* when there is no file or the text is no document
StoredRuns(project_name) ==
    IF IsPartial(history_file) THEN <<>>
    ELSE RunsIn(_load_history(history_file), project_name)

\* the run ids stored for a project in test_history.json
StoredRunIds(project_name) ==
    {StoredRuns(project_name)[i].run_id : i \in DOMAIN StoredRuns(project_name)}

\* no add_test_run call is under way and none has crashed
StorageQuiet ==
    /\ crashes = <<>>
    /\ \A i \in DOMAIN trackers : ~Adding(i)

\* C14: while no add_test_run call is under way and none has crashed,
\* test_history.json holds every run whose add_test_run call has returned,
\* whichever tracker ingested it
C14_NoIngestionLost ==
    StorageQuiet =>
        \A k \in DOMAIN ingested : ingested[k].run_id \in StoredRunIds(ingested[k].project)

\* C15: a crash during the save of add_test_run leaves test_history.json as it
\* was before the save or as the complete new history
C15_CrashLeavesOldOrNew ==
    \A k \in DOMAIN crashes : crashes[k].left \in {crashes[k].old, crashes[k].new}

\* the run ids ingested for a project, oldest first
RECURSIVE IngestedRunIds(_, _)
IngestedRunIds(runs, project_name) ==
    IF runs = <<>> THEN <<>>
    ELSE (IF Head(runs).project = project_name THEN <<Head(runs).run_id>> ELSE <<>>)
         \o IngestedRunIds(Tail(runs), project_name)

\* C21: while no add_test_run call is under way and none has crashed, the
\* runs that test_history.json holds for a project are the project's most
\* recently ingested runs, at most HistoryLimit of them, in ingestion order
C21_StoredAreMostRecentRuns ==
    StorageQuiet =>
        \A p \in Projects :
            LET stored == StoredRuns(p)
            IN  /\ Len(stored) <= HistoryLimit
                /\ [i \in DOMAIN stored |-> stored[i].run_id]
                       = LastN(IngestedRunIds(ingested, p), HistoryLimit)

----------------------------------------------------------------------------
(* Properties of the trend query (SpecTrends) *)

\* the last get_test_trends call returned trends, not an error
TrendsReturned == trends # NoResult /\ "error" \notin DOMAIN trends.result

\* performance_regression is set in the trends returned
RegressionFlagged ==
    /\ "performance_regression" \in DOMAIN trends.result
    /\ trends.result.performance_regression

\* the durations recorded for the test in the window of the last call, oldest
\* first: those above 0, as line 118 keeps them
RecordedDurations ==
    PositiveDurations(RelevantRuns(history[trends.query.project_name],
                                   trends.query.test_name,
                                   trends.now - trends.query.days))

\* C22: performance_regression is set exactly when the window holds at least
\* 5 recorded durations of the test and the mean of the 5 most recent ones
\* exceeds 1.5 times the mean of all of them
C22_RegressionIffRecentMeanExceeds ==
    TrendsReturned =>
        (RegressionFlagged <=>
            /\ Len(RecordedDurations) >= 5
            /\ 2 * Len(RecordedDurations) * Sum(LastN(RecordedDurations, 5))
                   > 3 * 5 * Sum(RecordedDurations))

\* C30: performance_regression is set only when the window holds at least 8
\* positive durations of the test
C30_NoRegressionBelowEightDurations ==
    (TrendsReturned /\ RegressionFlagged) => Len(RecordedDurations) >= 8

\* seven positive durations, the five recent ones long and the two before
\* them short, and no regression is flagged
C30_Witness ==
    /\ TrendsReturned
    /\ RecordedDurations = <<1, 1, 16, 16, 16, 16, 16>>
    /\ ~RegressionFlagged
    /\ trends.result.duration_stats.mean = [n |-> 82, d |-> 7]

----------------------------------------------------------------------------
(* Properties of the answer of check_response (SpecDetector) *)

\* C23: the answer of check_response has response_verified true exactly when
\* it holds no discrepancy, hallucinations_detected as the negation, and a
\* trust_score of max(0, 1 - 0.2 * number of discrepancies), here in
\* thousandths, which lies between 0 and 1
C23_VerifiedAndTrustScore ==
    Returned =>
        LET n == Len(check_result.detections)
        IN  /\ check_result.response_verified <=> n = 0
            /\ check_result.hallucinations_detected <=> ~check_result.response_verified
            /\ "trust_score" \in DOMAIN check_result
            /\ check_result.trust_score = Max(0, 1000 - 200 * n)
            /\ check_result.trust_score \in 0..1000

----------------------------------------------------------------------------
(* Properties of the scores' range and of the tiers (SpecScores) *)

\* C24: for signals whose ratios lie in [0,1] and whose counts are not
\* negative, deception_score lies in [0,1] and trust_score is
\* 1 - deception_score, which lies in [0,1] too
C24_ScoresWithinUnitInterval ==
    scores # NoResult =>
        LET deception == scores.deception_score
            trust == scores.trust_score
        IN  /\ deception.d > 0 /\ trust.d > 0
            /\ 0 <= deception.n /\ deception.n <= deception.d
            /\ 0 <= trust.n /\ trust.n <= trust.d
            /\ trust.n * deception.d = (deception.d - deception.n) * trust.d

\* twelve hallucinations and a manipulated honeypot, nothing else: both factors
\* are 1.0, deception_score is 1.0 and trust_score is 0.0
C24_Witness ==
    /\ scores # NoResult
    /\ analyzers.hallucination_monitor.hallucinations = 12
    /\ scores.deception_indicators = <<"honeypot_manipulation", "hallucinations">>
    /\ scores.deception_score.n = scores.deception_score.d
    /\ scores.trust_score.n = 0


\* the place of a tier among the three, the worst first
TierRank(level) == CASE level = "low" -> 0 [] level = "medium" -> 1 [] level = "high" -> 2

\* the tiers under which the summary lists a project
TiersOfProject(project) ==
    {level \in DOMAIN summary.summary.projects_by_trust :
        \E i \in DOMAIN summary.summary.projects_by_trust[level] :
            summary.summary.projects_by_trust[level][i].project = project}

\* C25: every trust_score is placed in exactly one of the three tiers, the tier
\* never gets worse as trust_score increases, a trust_score of exactly 0.8 is in
\* the top tier and a trust_score of exactly 0.5 in the middle tier
C25_TiersMonotoneWithClosedThresholds ==
    /\ \A x, y \in {[n |-> k, d |-> Scale] : k \in 0..Scale} :
          x.n <= y.n => TierRank(trust_level(x)) <= TierRank(trust_level(y))
    /\ summary # NoResult =>
          \A n \in DOMAIN summary.individual_results :
              LET project == summary.individual_results[n].key
                  trust_score == summary.individual_results[n].value.trust_score
              IN  /\ Cardinality(TiersOfProject(project)) = 1
                  /\ TiersOfProject(project) \subseteq {"high", "medium", "low"}
                  /\ 10 * trust_score.n = 8 * trust_score.d =>
                         TiersOfProject(project) = {"high"}
                  /\ 10 * trust_score.n = 5 * trust_score.d =>
                         TiersOfProject(project) = {"medium"}

----------------------------------------------------------------------------
(* Properties of the counter that the alert check resets (SpecMonitor) *)

\* the call of log_hallucination made last
LastCall == calls[Len(calls)]

\* C26: with alerts enabled, after every log_hallucination call that returns
\* normally the project's hallucinations_detected is strictly below
\* alert_threshold, whatever calls came before, those that raised included
C26_CounterBelowThresholdAfterReturn ==
    (enable_alerts /\ calls # <<>> /\ log_outcome = "returned") =>
        MetricsOf(metrics, LastCall.project).hallucinations_detected < alert_threshold

\* calls that raised have taken the counter to the threshold unchecked; the call
\* that returned then found it above the threshold, alerted and reset it
C26_Witness ==
    /\ enable_alerts
    /\ Len(calls) = alert_threshold + 1
    /\ \A i \in 1..alert_threshold :
          calls[i] = [project |-> "p1", detection_result |-> HashMissing]
    /\ LastCall = [project |-> "p1", detection_result |-> NumbersWrong]
    /\ log_outcome = "returned"
    /\ alerts # <<>>
    /\ alerts[Len(alerts)].hallucination_count = alert_threshold + 1
    /\ metrics["p1"].hallucinations_detected = 0

----------------------------------------------------------------------------
(* Properties of the background monitoring (SpecBackground) *)

\* the _background_monitor threads that have not ended
RunningLoops == {t \in DOMAIN loops : loops[t].pc # "ended"}

\* C27: after any sequence of start_background_monitoring and
\* stop_background_monitoring calls at most one background monitoring loop is
\* running: a start after a stop does not leave the earlier loop running beside
\* the new one, and a start while monitoring is active starts no second loop
C27_AtMostOneLoopRunning == Cardinality(RunningLoops) <= 1

----------------------------------------------------------------------------
(* Properties of the verification report (SpecReport) *)

\* C28: a report written by generate_verification_report and read back
\* unchanged passes verify_record: the stored hash equals the hash recomputed
\* from the stored record
C28_WrittenReportVerifies ==
    /\ output_file # NoRecord =>
          StoredHash(output_file) = _calculate_hash(output_file)
    /\ (output_file # NoRecord /\ original = output_file /\ verify_calls = 1) =>
          verify_result = "true"

----------------------------------------------------------------------------
(* Properties of the adapter's flakiness query (SpecAdapter) *)

\* C29: querying flakiness is idempotent with respect to history: however often
\* detect_flaky_tests is called for one report, directly or through
\* get_actionable_items, the report's run is added to the project's history at
\* most once, so a repeated query changes neither the stored runs nor the
\* flakiness analysis
C29_RepeatedQueryLeavesHistory ==
    [][(adapter' = adapter /\ detect_calls >= 1 /\ detect_calls' = detect_calls + 1)
          => (history' = history /\ history_file' = history_file
              /\ flaky_file' = flaky_file)]_vars

\* a report with a failed case has been queried three times, the last time
\* through get_actionable_items
C29_Witness ==
    /\ adapter # NoResult
    /\ detect_calls = 3
    /\ "actions" \in DOMAIN adapter_answer
    /\ \E n \in DOMAIN adapter.data.tests : adapter.data.tests[n].outcome = "failed"

====
